---- MODULE Spec2Model ----
(***************************************************************************)
(* Model of the contract builder of near-syn (src/src/contract.rs) and of  *)
(* the attribute classifier it relies on (src/src/lib.rs).                 *)
(*                                                                         *)
(* Syntax nodes are records that keep the fields of the syn nodes the code *)
(* reads:                                                                  *)
(*   Path       a sequence of segment identifiers                          *)
(*   Attribute  [path, nested]   nested: the paths of a meta list; a doc   *)
(*              attribute (doc = "line") also carries lit, the line        *)
(*   Type       [shape, ...]     shape "Path" carries path (and, where the *)
(*              code reads them, arguments), "Paren" elem, "Tuple" elems,  *)
(*              "Reference" and "Ptr" elem                                 *)
(*   method     [kind, vis, attrs, sig], sig = [ident, inputs], and output *)
(*              where the code reads it                                    *)
(*   ItemImpl   [attrs, trait_, self_ty, items]                            *)
(*   ItemStruct, ItemEnum, ItemType  [attrs, ident]                        *)
(*   ItemTrait  [attrs, ident, items]                                      *)
(* An Option is a sequence of length at most one.                          *)
(*                                                                         *)
(*   File       [attrs, items]   items: Items, an Item is [tag, item]      *)
(*   ItemMod    [content]        content: an Option of the inner Items     *)
(*                                                                         *)
(* The actions of Spec and SpecOne are calls of Contract::push_items with  *)
(* one declaration; the actions of SpecAst are calls of Contract::push_ast *)
(* with one file, the ones of SpecEmit one iteration of emit_ts, the ones   *)
(* of SpecType and SpecSig one call of ts_type and of ts_sig, the ones of  *)
(* SpecTS one call of TS::ts_items with the declarations of one file.      *)
(***************************************************************************)
EXTENDS Integers, Sequences, FiniteSets, TLC

VARIABLES
    name,            \* Contract::name: Option<String>
    top_level_attrs, \* Contract::top_level_attrs: Vec<Attribute>
    traits,          \* Contract::traits: trait name -> NearItemTrait
    interfaces,      \* Contract::interfaces: Vec<String>
    methods,         \* Contract::methods: method name -> (method, impl)
    init_methods,    \* Contract::init_methods: Vec<String>
    view_methods,    \* Contract::view_methods: Vec<String>
    change_methods,  \* Contract::change_methods: Vec<String>
    items,           \* Contract::items: Vec<NearItem>
    buf,             \* what was written to the output, or returned
    TS,              \* struct TS of ts.rs, and the panic that ended the pass
    pushed,          \* history: number of declarations pushed so far
    last             \* history: the declaration pushed by the last step

vars == <<name, top_level_attrs, traits, interfaces, methods, init_methods,
          view_methods, change_methods, items, buf, TS, pushed, last>>

(***************************************************************************)
(* Bounds.                                                                 *)
(***************************************************************************)
MaxPushes == 2

MaxModDepth == 2

MaxTypeDepth == 3

(***************************************************************************)
(* Option, maps.                                                           *)
(***************************************************************************)
None == <<>>

Some(x) == <<x>>

EmptyMap == [k \in {} |-> {}]

\* Variant: a key already present keeps its value.
insert_if_absent(map, key, value) ==
    [k \in (DOMAIN map) \cup {key} |->
        IF k \in DOMAIN map THEN map[k] ELSE value]

insert(map, key, value) ==
    [k \in (DOMAIN map) \cup {key} |-> IF k = key THEN value ELSE map[k]]

(***************************************************************************)
(* lib.rs: helpers over paths and attributes.                              *)
(***************************************************************************)
RECURSIVE join_path(_)
join_path(path) ==
    IF Len(path) = 0 THEN ""
    ELSE IF Len(path) = 1 THEN path[1]
    ELSE path[1] \o "::" \o join_path(Tail(path))

path_is_ident(path, ident) == path = <<ident>>

last_segment_is_ident(path, ident) ==
    Len(path) >= 2 /\ path[Len(path)] = ident

is_ident(path, ident) ==
    path_is_ident(path, ident) \/ last_segment_is_ident(path, ident)

has_attr(attrs, attr_name) ==
    \E i \in DOMAIN attrs : is_ident(attrs[i].path, attr_name)

derives(attrs, macro_name) ==
    \E i \in DOMAIN attrs :
        /\ path_is_ident(attrs[i].path, "derive")
        /\ \E j \in DOMAIN attrs[i].nested :
               is_ident(attrs[i].nested[j], macro_name)

(***************************************************************************)
(* lib.rs: NearMethod for ImplItemMethod.                                  *)
(***************************************************************************)
is_public(method) == method.vis = "Public"

\* Variant: the test of the receiver's mutability is inverted.
is_mut_inverted(method) ==
    IF Len(method.sig.inputs) > 0 /\ method.sig.inputs[1].kind = "Receiver"
    THEN ~method.sig.inputs[1].mutability
    ELSE FALSE

is_mut(method) ==
    IF Len(method.sig.inputs) > 0 /\ method.sig.inputs[1].kind = "Receiver"
    THEN method.sig.inputs[1].mutability
    ELSE FALSE

is_init(method) == has_attr(method.attrs, "init")

is_payable(method) == has_attr(method.attrs, "payable")

is_private(method) == has_attr(method.attrs, "private")

\* Variant: the interface of the owning implementation is not looked at.
is_exported_public_only(method, input) ==
    is_public(method) /\ ~is_private(method)

is_exported(method, input) ==
    (is_public(method) \/ input.trait_ # None) /\ ~is_private(method)

(***************************************************************************)
(* lib.rs: NearImpl for ItemImpl.                                          *)
(***************************************************************************)
is_bindgen(item_impl) == has_attr(item_impl.attrs, "near_bindgen")

get_trait_name(item_impl) ==
    IF item_impl.trait_ # None
    THEN Some(join_path(item_impl.trait_[1]))
    ELSE None

get_impl_name(item_impl) ==
    IF item_impl.self_ty.shape = "Path"
    THEN Some(join_path(item_impl.self_ty.path))
    ELSE None

exported_methods(item_impl) ==
    SelectSeq(item_impl.items,
              LAMBDA impl_item :
                  impl_item.kind = "Method" /\ is_exported(impl_item, item_impl))

\* Variant: the near_bindgen marker is not looked at.
bindgen_methods_unmarked(item_impl) ==
    IF Len(exported_methods(item_impl)) > 0
    THEN Some(exported_methods(item_impl))
    ELSE None

bindgen_methods(item_impl) ==
    IF is_bindgen(item_impl) /\ Len(exported_methods(item_impl)) > 0
    THEN Some(exported_methods(item_impl))
    ELSE None

(***************************************************************************)
(* lib.rs: NearSerde.                                                      *)
(***************************************************************************)
is_serialize(item) == derives(item.attrs, "Serialize")

is_deserialize(item) == derives(item.attrs, "Deserialize")

\* Variant: only Serialize is looked for.
is_serde_serialize_only(item) == is_serialize(item)

is_serde(item) == is_serialize(item) \/ is_deserialize(item)

(***************************************************************************)
(* contract.rs: the Contract as a record, and the push operations as       *)
(* functions from a Contract to the Contract after the call.               *)
(***************************************************************************)
new ==
    [name |-> None, top_level_attrs |-> <<>>, traits |-> EmptyMap,
     interfaces |-> <<>>,
     methods |-> EmptyMap, init_methods |-> <<>>, view_methods |-> <<>>,
     change_methods |-> <<>>, items |-> <<>>]

\* Variant: the receiver is looked at before the init marker.
push_method_mut_first(c, method, item_impl) ==
    LET ident == method.sig.ident
        c1    == [c EXCEPT !.methods = insert(@, ident, <<method, item_impl>>)]
    IN  IF is_mut(method)
        THEN [c1 EXCEPT !.change_methods = Append(@, ident)]
        ELSE IF is_init(method)
        THEN [c1 EXCEPT !.init_methods = Append(@, ident)]
        ELSE [c1 EXCEPT !.view_methods = Append(@, ident)]

\* Variant: a name that is in the map already is not listed again.
push_method_listed_once(c, method, item_impl) ==
    LET ident == method.sig.ident
        c1    == [c EXCEPT !.methods = insert(@, ident, <<method, item_impl>>)]
    IN  IF ident \in DOMAIN c.methods THEN c1
        ELSE IF is_init(method)
        THEN [c1 EXCEPT !.init_methods = Append(@, ident)]
        ELSE IF is_mut(method)
        THEN [c1 EXCEPT !.change_methods = Append(@, ident)]
        ELSE [c1 EXCEPT !.view_methods = Append(@, ident)]

\* One iteration of the loop over the exported methods of push_impl.
push_method(c, method, item_impl) ==
    LET ident == method.sig.ident
        c1    == [c EXCEPT !.methods = insert(@, ident, <<method, item_impl>>)]
    IN  IF is_init(method)
        THEN [c1 EXCEPT !.init_methods = Append(@, ident)]
        ELSE IF is_mut(method)
        THEN [c1 EXCEPT !.change_methods = Append(@, ident)]
        ELSE [c1 EXCEPT !.view_methods = Append(@, ident)]

\* Variant: only the first exported method is registered.
push_methods_first_only(c, ms, item_impl) ==
    IF Len(ms) = 0 THEN c ELSE push_method(c, Head(ms), item_impl)

RECURSIVE push_methods(_, _, _)
push_methods(c, ms, item_impl) ==
    IF Len(ms) = 0 THEN c
    ELSE push_methods(push_method(c, Head(ms), item_impl), Tail(ms), item_impl)

\* Variant: the name is set by the first bare implementation only.
push_impl_target_name_once(c, item_impl) ==
    IF get_trait_name(item_impl) # None
    THEN [c EXCEPT !.interfaces = Append(@, get_trait_name(item_impl)[1])]
    ELSE IF get_impl_name(item_impl) # None /\ c.name = None
    THEN [c EXCEPT !.name = Some(get_impl_name(item_impl)[1])]
    ELSE c

\* Variant: an interface already in the list is not appended again.
push_impl_target_unique(c, item_impl) ==
    IF get_trait_name(item_impl) # None
    THEN IF \E k \in DOMAIN c.interfaces :
                c.interfaces[k] = get_trait_name(item_impl)[1]
         THEN c
         ELSE [c EXCEPT !.interfaces = Append(@, get_trait_name(item_impl)[1])]
    ELSE IF get_impl_name(item_impl) # None
    THEN [c EXCEPT !.name = Some(get_impl_name(item_impl)[1])]
    ELSE c

\* Variant: an empty descriptor is registered for an interface not yet known.
push_impl_target_placeholder(c, item_impl) ==
    IF get_trait_name(item_impl) # None
    THEN LET trait_name == get_trait_name(item_impl)[1]
             c1 == [c EXCEPT !.interfaces = Append(@, trait_name)]
         IN  IF trait_name \in DOMAIN c.traits THEN c1
             ELSE [c1 EXCEPT !.traits =
                      insert(@, trait_name,
                             [item_trait |-> [attrs |-> <<>>, ident |-> trait_name,
                                              items |-> <<>>],
                              methods |-> EmptyMap])]
    ELSE IF get_impl_name(item_impl) # None
    THEN [c EXCEPT !.name = Some(get_impl_name(item_impl)[1])]
    ELSE c

\* Variant: the implemented trait is put at the front of the interfaces.
push_impl_target_front(c, item_impl) ==
    IF get_trait_name(item_impl) # None
    THEN [c EXCEPT !.interfaces = <<get_trait_name(item_impl)[1]>> \o @]
    ELSE IF get_impl_name(item_impl) # None
    THEN [c EXCEPT !.name = Some(get_impl_name(item_impl)[1])]
    ELSE c

\* push_impl, the interface list or the name: the implemented trait is
\* appended to the interfaces, else the name is set from a path self type.
push_impl_target(c, item_impl) ==
    IF get_trait_name(item_impl) # None
    THEN [c EXCEPT !.interfaces = Append(@, get_trait_name(item_impl)[1])]
    ELSE IF get_impl_name(item_impl) # None
    THEN [c EXCEPT !.name = Some(get_impl_name(item_impl)[1])]
    ELSE c

push_impl(c, item_impl) ==
    IF bindgen_methods(item_impl) = None THEN c
    ELSE
        LET ms == bindgen_methods(item_impl)[1]
            c1 == push_impl_target(c, item_impl)
            c2 == push_methods(c1, ms, item_impl)
        IN  [c2 EXCEPT !.items = Append(@, [tag |-> "Impl", item |-> item_impl])]

push_struct(c, item_struct) ==
    IF ~is_serde(item_struct) THEN c
    ELSE [c EXCEPT !.items = Append(@, [tag |-> "Struct", item |-> item_struct])]

push_enum(c, item_enum) ==
    IF ~is_serde(item_enum) THEN c
    ELSE [c EXCEPT !.items = Append(@, [tag |-> "Enum", item |-> item_enum])]

push_typedef(c, item_type) ==
    [c EXCEPT !.items = Append(@, [tag |-> "Type", item |-> item_type])]

RECURSIVE trait_methods(_)
trait_methods(trait_items) ==
    IF Len(trait_items) = 0 THEN EmptyMap
    ELSE LET front == trait_methods(SubSeq(trait_items, 1, Len(trait_items) - 1))
             item  == trait_items[Len(trait_items)]
         IN  IF item.kind = "Method"
             THEN insert(front, item.sig.ident, item)
             ELSE front

NearItemTrait_new(item_trait) ==
    [item_trait |-> item_trait, methods |-> trait_methods(item_trait.items)]

\* Variant: the registry is replaced by the one descriptor.
push_trait_alone(c, item_trait) ==
    [c EXCEPT !.traits = insert(EmptyMap, item_trait.ident, NearItemTrait_new(item_trait))]

push_trait(c, item_trait) ==
    [c EXCEPT !.traits = insert(@, item_trait.ident, NearItemTrait_new(item_trait))]

\* push_items: an Item is [tag, item]; a Mod carries content, an Option of
\* its inner items.
RECURSIVE push_items(_, _)
push_items(c, its) ==
    IF Len(its) = 0 THEN c
    ELSE
        LET it == Head(its)
            c1 == CASE it.tag = "Impl"   -> push_impl(c, it.item)
                    [] it.tag = "Struct" -> push_struct(c, it.item)
                    [] it.tag = "Enum"   -> push_enum(c, it.item)
                    [] it.tag = "Type"   -> push_typedef(c, it.item)
                    [] it.tag = "Trait"  -> push_trait(c, it.item)
                    [] it.tag = "Mod"    ->
                           IF it.item.content # None
                           THEN push_items(c, it.item.content[1])
                           ELSE c
                    [] OTHER             -> c
        IN  push_items(c1, Tail(its))

\* NearBindgen::is_bindgen of an ItemStruct: the struct carries the
\* near_bindgen marker.
is_bindgen_struct(item_struct) == has_attr(item_struct.attrs, "near_bindgen")

\* The flag push_items returns: a struct of the list itself was retained
\* and is near_bindgen.  The flag of the call on the content of a Mod is
\* dropped by the caller.
declares_bindgen(its) ==
    \E k \in DOMAIN its :
        /\ its[k].tag = "Struct"
        /\ is_serde(its[k].item)
        /\ is_bindgen_struct(its[k].item)

push_ast(c, ast) ==
    LET c1 == push_items(c, ast.items)
    IN  IF declares_bindgen(ast.items)
        THEN [c1 EXCEPT !.top_level_attrs = ast.attrs]
        ELSE c1

RECURSIVE push_asts(_, _)
push_asts(c, asts) ==
    IF Len(asts) = 0 THEN c
    ELSE push_asts(push_ast(c, Head(asts)), Tail(asts))

(***************************************************************************)
(* lib.rs: the attributes of an implementation and of a method joined with *)
(* the ones of the trait, and the doc lines among attributes.              *)
(***************************************************************************)
impl_join_attrs(item_impl, item_trait) ==
    IF item_trait # None
    THEN item_impl.attrs \o item_trait[1].item_trait.attrs
    ELSE item_impl.attrs

\* Variant: the attributes of the trait method come first.
join_attrs_trait_first(method, item_trait) ==
    IF item_trait # None
    THEN IF method.sig.ident \in DOMAIN item_trait[1].methods
         THEN item_trait[1].methods[method.sig.ident].attrs \o method.attrs
         ELSE method.attrs
    ELSE method.attrs

join_attrs(method, item_trait) ==
    IF item_trait # None
    THEN IF method.sig.ident \in DOMAIN item_trait[1].methods
         THEN method.attrs \o item_trait[1].methods[method.sig.ident].attrs
         ELSE method.attrs
    ELSE method.attrs

\* The attributes named doc are all of the form doc = "line" here; get_docs
\* panics ("not expected") on any other form.
get_docs(attrs) ==
    LET docs == SelectSeq(attrs, LAMBDA attr : path_is_ident(attr.path, "doc"))
    IN  [k \in DOMAIN docs |-> docs[k].lit]

(***************************************************************************)
(* main.rs: emit_ts.  For each file in turn, forward_traits registers the  *)
(* traits of the file and ts_items writes the file's implementations, the  *)
(* documentation of each looked up in the traits registered so far.  Of    *)
(* what is written, only the doc comments are kept, and only those of      *)
(* implementations and of their methods, as blocks [trait_, method, docs], *)
(* trait_ the trait of the implementation and method None for the          *)
(* implementation itself.                                                  *)
(***************************************************************************)
RECURSIVE forward_traits(_, _)
forward_traits(c, its) ==
    IF Len(its) = 0 THEN c
    ELSE
        LET it == Head(its)
            c1 == CASE it.tag = "Trait" -> push_trait(c, it.item)
                    [] it.tag = "Mod"   ->
                           IF it.item.content # None
                           THEN forward_traits(c, it.item.content[1])
                           ELSE c
                    [] OTHER            -> c
        IN  forward_traits(c1, Tail(its))

\* Variant: the descriptor of the trait is not looked up.
lookup_trait_never(c, item_impl) == None

lookup_trait(c, item_impl) ==
    IF get_trait_name(item_impl) # None
       /\ get_trait_name(item_impl)[1] \in DOMAIN c.traits
    THEN Some(c.traits[get_trait_name(item_impl)[1]])
    ELSE None

ts_impl(item_impl, c) ==
    IF bindgen_methods(item_impl) = None THEN <<>>
    ELSE
        LET ms         == bindgen_methods(item_impl)[1]
            item_trait == lookup_trait(c, item_impl)
        IN  <<[trait_ |-> get_trait_name(item_impl), method |-> None,
               docs |-> get_docs(impl_join_attrs(item_impl, item_trait))]>>
            \o [k \in DOMAIN ms |->
                   [trait_ |-> get_trait_name(item_impl),
                    method |-> Some(ms[k].sig.ident),
                    docs |-> get_docs(join_attrs(ms[k], item_trait))]]

RECURSIVE ts_items(_, _)
ts_items(its, c) ==
    IF Len(its) = 0 THEN <<>>
    ELSE
        LET it == Head(its)
            out == CASE it.tag = "Impl" -> ts_impl(it.item, c)
                     [] it.tag = "Mod"  ->
                            IF it.item.content # None
                            THEN ts_items(it.item.content[1], c)
                            ELSE <<>>
                     [] OTHER           -> <<>>
        IN  out \o ts_items(Tail(its), c)

(***************************************************************************)
(* ts.rs: ts_type.  A call either returns or panics: what it gives is a    *)
(* record of what it returns ([text], with assoc inside ts_type; [targs]   *)
(* for gen_args), or [panic, args], the format string of the panic and the *)
(* arguments formatted into it.                                            *)
(***************************************************************************)
\* Variant: Or is declared before Vec.
Assoc_Or_before_Vec == [Single |-> 0, Or |-> 1, Vec |-> 2]

Assoc == [Single |-> 0, Vec |-> 1, Or |-> 2]

Panic(format, args) == [panic |-> format, args |-> args]

panics(r) == "panic" \in DOMAIN r

\* Variant: the text is given the class Or.
single_as_or(ts) == [text |-> ts, assoc |-> Assoc.Or]

single(ts) == [text |-> ts, assoc |-> Assoc.Single]

\* Variant: a sub-expression is never parenthesized.
use_paren_never(ta, assoc) == ta.text

\* Variant: a sub-expression of the same class is parenthesized too.
use_paren_same_class(ta, assoc) ==
    IF ta.assoc >= assoc THEN "(" \o ta.text \o ")" ELSE ta.text

use_paren(ta, assoc) ==
    IF ta.assoc > assoc THEN "(" \o ta.text \o ")" ELSE ta.text

\* Variant: more arguments than nargs are accepted.
gen_args_at_least(p, nargs, wrapper) ==
    IF p.arguments.kind = "AngleBracketed"
    THEN IF Len(p.arguments.args) < nargs
         THEN Panic("{} expects {} generic(s) argument(s), found {}",
                    <<wrapper, nargs, Len(p.arguments.args)>>)
         ELSE IF \E k \in DOMAIN p.arguments.args : p.arguments.args[k].kind # "Type"
         THEN Panic("No type provided for {}", <<wrapper>>)
         ELSE [targs |-> [k \in DOMAIN p.arguments.args |-> p.arguments.args[k].ty]]
    ELSE Panic("{} used with no generic arguments", <<wrapper>>)

\* Variant: every argument returned is the first one written.
gen_args_first_only(p, nargs, wrapper) ==
    IF p.arguments.kind = "AngleBracketed"
    THEN IF Len(p.arguments.args) # nargs
         THEN Panic("{} expects {} generic(s) argument(s), found {}",
                    <<wrapper, nargs, Len(p.arguments.args)>>)
         ELSE IF \E k \in DOMAIN p.arguments.args : p.arguments.args[k].kind # "Type"
         THEN Panic("No type provided for {}", <<wrapper>>)
         ELSE [targs |-> [k \in DOMAIN p.arguments.args |-> p.arguments.args[1].ty]]
    ELSE Panic("{} used with no generic arguments", <<wrapper>>)

gen_args(p, nargs, wrapper) ==
    IF p.arguments.kind = "AngleBracketed"
    THEN IF Len(p.arguments.args) # nargs
         THEN Panic("{} expects {} generic(s) argument(s), found {}",
                    <<wrapper, nargs, Len(p.arguments.args)>>)
         ELSE IF \E k \in DOMAIN p.arguments.args : p.arguments.args[k].kind # "Type"
         THEN Panic("No type provided for {}", <<wrapper>>)
         ELSE [targs |-> [k \in DOMAIN p.arguments.args |-> p.arguments.args[k].ty]]
    ELSE Panic("{} used with no generic arguments", <<wrapper>>)

\* Variant: the separator is left out.
RECURSIVE join_no_separator(_, _)
join_no_separator(tys, sep) ==
    IF Len(tys) = 0 THEN ""
    ELSE tys[1] \o join_no_separator(Tail(tys), sep)

\* tys.join(", ")
RECURSIVE join(_, _)
join(tys, sep) ==
    IF Len(tys) = 0 THEN ""
    ELSE IF Len(tys) = 1 THEN tys[1]
    ELSE tys[1] \o sep \o join(Tail(tys), sep)

RECURSIVE ts_type_assoc(_)
ts_type_assoc(ty) ==
    CASE ty.shape = "Path" ->
           LET s == join_path(ty.path) IN
           CASE s = "bool" -> single("boolean")
             [] s = "u64" -> single("number")
             [] s \in {"i8", "u8", "i16", "u16", "i32", "u32"} -> single("number")
             [] s = "String" -> single("string")
             [] s = "Option" ->
                  LET r == gen_args(ty, 1, "Option") IN
                  IF panics(r) THEN r
                  ELSE LET ta == ts_type_assoc(r.targs[1]) IN
                       IF panics(ta) THEN ta
                       ELSE [text |-> use_paren(ta, Assoc.Or) \o "|null",
                             assoc |-> Assoc.Or]
             [] s \in {"Vec", "HashSet", "BTreeSet"} ->
                  LET r == gen_args(ty, 1, "Vec") IN
                  IF panics(r) THEN r
                  ELSE LET ta == ts_type_assoc(r.targs[1]) IN
                       IF panics(ta) THEN ta
                       ELSE [text |-> use_paren(ta, Assoc.Vec) \o "[]",
                             assoc |-> Assoc.Vec]
             [] s \in {"HashMap", "BTreeMap"} ->
                  LET r == gen_args(ty, 2, "HashMap") IN
                  IF panics(r) THEN r
                  ELSE LET tk == ts_type_assoc(r.targs[1]) IN
                       IF panics(tk) THEN tk
                       ELSE LET tv == ts_type_assoc(r.targs[2]) IN
                            IF panics(tv) THEN tv
                            ELSE single("Record<" \o tk.text \o ", " \o tv.text \o ">")
             [] OTHER -> single(s)
      [] ty.shape = "Paren" -> ts_type_assoc(ty.elem)
      [] ty.shape = "Tuple" ->
           IF Len(ty.elems) = 0 THEN single("void")
           ELSE LET ts == [k \in DOMAIN ty.elems |-> ts_type_assoc(ty.elems[k])] IN
                IF \E k \in DOMAIN ts : panics(ts[k])
                THEN ts[CHOOSE k \in DOMAIN ts :
                           panics(ts[k]) /\ \A j \in 1 .. k - 1 : ~panics(ts[j])]
                ELSE single("[" \o join([k \in DOMAIN ts |-> ts[k].text], ", ") \o "]")
      [] OTHER -> Panic("type not supported", <<>>)

ts_type(ty) ==
    LET r == ts_type_assoc(ty)
    IN  IF panics(r) THEN r ELSE [text |-> r.text]

(***************************************************************************)
(* near_syn.rs: the NearMethod that ts.rs imports.  Its has_attr compares  *)
(* the whole path of the attribute with the name (Path::is_ident).         *)
(***************************************************************************)
near_syn_has_attr(attrs, attr_name) ==
    \E i \in DOMAIN attrs : path_is_ident(attrs[i].path, attr_name)

\* Variant: no method is taken for an init method.
near_syn_is_init_never(method) == FALSE

near_syn_is_init(method) == near_syn_has_attr(method.attrs, "init")

near_syn_is_payable(method) == near_syn_has_attr(method.attrs, "payable")

(***************************************************************************)
(* ts.rs: ts_sig.  A method also carries sig.output, [kind |-> "Default"]  *)
(* or [kind |-> "Type", ty]; the pattern of a typed parameter is           *)
(* [kind |-> "Ident", ident] or of another kind.                           *)
(***************************************************************************)
\* The first loop of ts_sig: "name: type" for each typed parameter whose
\* pattern is an identifier.
RECURSIVE ts_sig_args(_)
ts_sig_args(inputs) ==
    IF Len(inputs) = 0 THEN [args |-> <<>>]
    ELSE LET arg == Head(inputs) IN
         IF arg.kind = "Typed" /\ arg.pat.kind = "Ident"
         THEN LET type_name == ts_type(arg.ty) IN
              IF panics(type_name) THEN type_name
              ELSE LET rest == ts_sig_args(Tail(inputs)) IN
                   IF panics(rest) THEN rest
                   ELSE [args |-> <<arg.pat.ident \o ": " \o type_name.text>>
                                     \o rest.args]
         ELSE ts_sig_args(Tail(inputs))

ts_sig_ret_type(output) ==
    IF output.kind = "Default" THEN [text |-> "void"]
    ELSE LET ty == ts_type(output.ty) IN
         IF panics(ty) THEN ty
         ELSE IF ty.text = "Promise" THEN [text |-> "void"]
         ELSE ty

\* Variant: the amount slot is pushed before the gas slot.
args_decl_amount_first(args, method) ==
    (IF Len(args) > 0 THEN <<"args: { " \o join(args, ", ") \o " }">> ELSE <<>>)
      \o (IF near_syn_is_payable(method) THEN <<"amount?: any">> ELSE <<>>)
      \o (IF is_mut(method) THEN <<"gas?: any">> ELSE <<>>)

args_decl(args, method) ==
    (IF Len(args) > 0 THEN <<"args: { " \o join(args, ", ") \o " }">> ELSE <<>>)
      \o (IF is_mut(method) THEN <<"gas?: any">> ELSE <<>>)
      \o (IF near_syn_is_payable(method) THEN <<"amount?: any">> ELSE <<>>)

ts_sig(method) ==
    LET a == ts_sig_args(method.sig.inputs) IN
    IF panics(a) THEN a
    ELSE IF near_syn_is_init(method)
    THEN [text |-> method.sig.ident \o ": { " \o join(a.args, ", ") \o " };"]
    ELSE LET ret_type == ts_sig_ret_type(method.sig.output) IN
         IF panics(ret_type) THEN ret_type
         ELSE [text |-> method.sig.ident \o "("
                          \o join(args_decl(a.args, method), ", ")
                          \o "): Promise<" \o ret_type.text \o ">;"]

(***************************************************************************)
(* near_syn.rs: NearImpl and what ts.rs reads of NearMethod.               *)
(***************************************************************************)
near_syn_is_bindgen(item_impl) == near_syn_has_attr(item_impl.attrs, "near_bindgen")

near_syn_is_exported(method, input) ==
    (is_public(method) \/ input.trait_ # None)
        /\ ~near_syn_has_attr(method.attrs, "private")

has_exported_methods(item_impl) ==
    \E k \in DOMAIN item_impl.items :
        /\ item_impl.items[k].kind = "Method"
        /\ near_syn_is_exported(item_impl.items[k], item_impl)

(***************************************************************************)
(* ts.rs: struct TS, a pass over several files that writes as it goes.     *)
(* buf is the sequence of the lines written (a "\n" inside a ln! is an     *)
(* empty line after it).  An operation gives the TS after it; when it      *)
(* panics, the TS as it was at the panic, with the panic.  A struct        *)
(* carries fields, [kind |-> "Named", named], [kind |-> "Unnamed",         *)
(* unnamed] or [kind |-> "Unit"]; an enum variants; a type alias ty.       *)
(***************************************************************************)
TS_new ==
    [name |-> "", impl_count |-> 0, interfaces |-> <<>>, view_methods |-> <<>>,
     change_methods |-> <<>>, buf |-> <<>>]

TS_panic(this, format, args) ==
    [name |-> this.name, impl_count |-> this.impl_count,
     interfaces |-> this.interfaces, view_methods |-> this.view_methods,
     change_methods |-> this.change_methods, buf |-> this.buf,
     panic |-> format, args |-> args]

ln(this, lines) == [this EXCEPT !.buf = @ \o lines]

\* lib.rs write_docs, the lines it writes; doc attributes are doc = "line".
write_docs(attrs, indent) ==
    LET docs == SelectSeq(attrs, LAMBDA attr : path_is_ident(attr.path, "doc"))
    IN  [k \in DOMAIN docs |-> indent \o " * " \o docs[k].lit]

TS_ts_doc(this, attrs, indent) ==
    ln(this, <<indent \o "/**">> \o write_docs(attrs, indent) \o <<indent \o " */">>)

TS_ts_type(this, item_type) ==
    LET documented == TS_ts_doc(this, item_type.attrs, "")
        ty == ts_type(item_type.ty)
    IN  IF panics(ty) THEN TS_panic(documented, ty.panic, ty.args)
        ELSE ln(documented,
                <<"export type " \o item_type.ident \o " = " \o ty.text \o ";", "">>)

\* ts_struct, Fields::Named: the loop over the fields.
RECURSIVE TS_ts_struct_named(_, _)
TS_ts_struct_named(this, named) ==
    IF Len(named) = 0 THEN this
    ELSE LET field == Head(named)
             ty == ts_type(field.ty)
         IN  IF panics(ty) THEN TS_panic(this, ty.panic, ty.args)
             ELSE TS_ts_struct_named(
                      ln(TS_ts_doc(this, field.attrs, "    "),
                         <<"    " \o field.ident \o ": " \o ty.text \o ";", "">>),
                      Tail(named))

TS_ts_struct(this, item_struct) ==
    IF ~is_serde(item_struct) THEN this
    ELSE LET documented == TS_ts_doc(this, item_struct.attrs, "")
             fields == item_struct.fields
         IN  CASE fields.kind = "Named" ->
                    LET written ==
                            TS_ts_struct_named(
                                ln(documented,
                                   <<"export interface " \o item_struct.ident \o " {">>),
                                fields.named)
                    IN  IF panics(written) THEN written ELSE ln(written, <<"}", "">>)
               [] fields.kind = "Unnamed" ->
                    LET tys == [k \in DOMAIN fields.unnamed |->
                                   ts_type(fields.unnamed[k].ty)]
                    IN  IF \E k \in DOMAIN tys : panics(tys[k])
                        THEN LET k == CHOOSE k \in DOMAIN tys :
                                        /\ panics(tys[k])
                                        /\ \A j \in 1 .. k - 1 : ~panics(tys[j])
                             IN  TS_panic(documented, tys[k].panic, tys[k].args)
                        ELSE ln(documented,
                                <<"export type " \o item_struct.ident \o " = "
                                    \o (IF Len(tys) = 1 THEN tys[1].text
                                        ELSE "[" \o join([k \in DOMAIN tys |-> tys[k].text],
                                                         ", ") \o "]")
                                    \o ";", "">>)
               [] OTHER -> TS_panic(documented, "unit struct no supported", <<>>)

\* ts_enum: the loop over the variants.
RECURSIVE TS_ts_enum_variants(_, _)
TS_ts_enum_variants(this, variants) ==
    IF Len(variants) = 0 THEN this
    ELSE TS_ts_enum_variants(
             ln(TS_ts_doc(this, Head(variants).attrs, "    "),
                <<"    " \o Head(variants).ident \o ",", "">>),
             Tail(variants))

TS_ts_enum(this, item_enum) ==
    IF ~is_serde(item_enum) THEN this
    ELSE ln(TS_ts_enum_variants(
                ln(TS_ts_doc(this, item_enum.attrs, ""),
                   <<"export enum " \o item_enum.ident \o " {">>),
                item_enum.variants),
            <<"}", "">>)

\* ts_impl, the body of the loop for an exported method: the name is listed,
\* the documentation written, then the signature, whose panic ends the pass.
TS_ts_impl_method(documented, sig) ==
    IF panics(sig) THEN TS_panic(documented, sig.panic, sig.args)
    ELSE ln(documented, <<"    " \o sig.text, "">>)

TS_ts_impl_item(this, method, item_impl) ==
    IF method.kind = "Method" /\ near_syn_is_exported(method, item_impl)
    THEN TS_ts_impl_method(
             TS_ts_doc(IF near_syn_is_init(method) THEN this
                       ELSE IF is_mut(method)
                       THEN [this EXCEPT !.change_methods = Append(@, method.sig.ident)]
                       ELSE [this EXCEPT !.view_methods = Append(@, method.sig.ident)],
                       method.attrs, "    "),
             ts_sig(method))
    ELSE this

\* ts_impl: the loop over the items of the implementation; a panic ends it.
RECURSIVE TS_ts_impl_methods(_, _, _)
TS_ts_impl_methods(this, impl_items, item_impl) ==
    IF Len(impl_items) = 0 \/ panics(this) THEN this
    ELSE TS_ts_impl_methods(TS_ts_impl_item(this, Head(impl_items), item_impl),
                            Tail(impl_items), item_impl)

\* ts_impl: the opening line, under the trait's name or under Self<impl_count>.
TS_ts_impl_open(documented, item_impl) ==
    IF item_impl.trait_ # None
    THEN LET trait_name == join_path(item_impl.trait_[1]) IN
         ln([documented EXCEPT !.interfaces = Append(@, trait_name)],
            <<"export interface " \o trait_name \o " {">>)
    ELSE IF item_impl.self_ty.shape = "Path"
    THEN LET impl_name == "Self" \o ToString(documented.impl_count) IN
         ln([documented EXCEPT
                 !.impl_count = @ + 1,
                 !.name = join_path(item_impl.self_ty.path),
                 !.interfaces = Append(@, impl_name)],
            <<"export interface " \o impl_name \o " {">>)
    ELSE TS_panic(documented, "name not found", <<>>)

\* ts_impl: the closing line, reached when nothing before it panicked.
TS_ts_impl_close(written) ==
    IF panics(written) THEN written ELSE ln(written, <<"}", "">>)

TS_ts_impl(this, item_impl) ==
    IF ~near_syn_is_bindgen(item_impl) \/ ~has_exported_methods(item_impl) THEN this
    ELSE TS_ts_impl_close(
             TS_ts_impl_methods(
                 TS_ts_impl_open(TS_ts_doc(this, item_impl.attrs, ""), item_impl),
                 item_impl.items, item_impl))

\* ts_items: the loop over the items of a file or of an inline module; a
\* panic ends it.
RECURSIVE TS_ts_items(_, _)
TS_ts_item(this, item) ==
    CASE item.tag = "Type" -> TS_ts_type(this, item.item)
      [] item.tag = "Struct" -> TS_ts_struct(this, item.item)
      [] item.tag = "Enum" -> TS_ts_enum(this, item.item)
      [] item.tag = "Impl" -> TS_ts_impl(this, item.item)
      [] item.tag = "Mod" ->
           IF item.item.content # None
           THEN TS_ts_items(this, item.item.content[1])
           ELSE this
      [] OTHER -> this

TS_ts_items(this, its) ==
    IF Len(its) = 0 \/ panics(this) THEN this
    ELSE TS_ts_items(TS_ts_item(this, Head(its)), Tail(its))

(***************************************************************************)
(* The declarations the builder is fed: constructors of syntax nodes.      *)
(***************************************************************************)
Attr(path) == [path |-> path, nested |-> <<>>]

Derive(paths) == [path |-> <<"derive">>, nested |-> paths]

Receiver(mutability) == [kind |-> "Receiver", mutability |-> mutability]

Typed(pat, ty) == [kind |-> "Typed", pat |-> pat, ty |-> ty]

PatIdent(ident) == [kind |-> "Ident", ident |-> ident]

PatWild == [kind |-> "Wild"]

ReturnDefault == [kind |-> "Default"]

ReturnType(ty) == [kind |-> "Type", ty |-> ty]

TypePath(path) == [shape |-> "Path", path |-> path]

Method(ident, vis, attrs, inputs) ==
    [kind |-> "Method", vis |-> vis, attrs |-> attrs,
     sig |-> [ident |-> ident, inputs |-> inputs]]

TraitMethod(ident, attrs) ==
    [kind |-> "Method", attrs |-> attrs, sig |-> [ident |-> ident, inputs |-> <<Receiver(FALSE)>>]]

MethodSig(ident, attrs, inputs, output) ==
    [kind |-> "Method", vis |-> "Public", attrs |-> attrs,
     sig |-> [ident |-> ident, inputs |-> inputs, output |-> output]]

ItemImpl(attrs, trait_, self_ty, impl_items) ==
    [attrs |-> attrs, trait_ |-> trait_, self_ty |-> self_ty, items |-> impl_items]

Item(tag, item) == [tag |-> tag, item |-> item]

\* A type written as a path of one or more segments, with the arguments of
\* its first segment: none, or the list written between < and >.
PathArgumentsNone == [kind |-> "None"]

AngleBracketed(args) == [kind |-> "AngleBracketed", args |-> args]

GenericType(ty) == [kind |-> "Type", ty |-> ty]

GenericLifetime == [kind |-> "Lifetime"]

TypePathArgs(path, arguments) ==
    [shape |-> "Path", path |-> path, arguments |-> arguments]

Named(ident) == TypePathArgs(<<ident>>, PathArgumentsNone)

Generic(ident, tys) ==
    TypePathArgs(<<ident>>, AngleBracketed([k \in DOMAIN tys |-> GenericType(tys[k])]))

TypeParen(elem) == [shape |-> "Paren", elem |-> elem]

TypeTuple(elems) == [shape |-> "Tuple", elems |-> elems]

TypeReference(elem) == [shape |-> "Reference", elem |-> elem]

TypePtr(elem) == [shape |-> "Ptr", elem |-> elem]

\* #[doc = "text"], what a /// or //! comment line is parsed into.
Doc(text) == [path |-> <<"doc">>, nested |-> <<>>, lit |-> text]

ItemMod(content) == [content |-> content]

File(attrs, file_items) == [attrs |-> attrs, items |-> file_items]

(***************************************************************************)
(* Declarations pushed one after another (specification Spec).  The        *)
(* methods cover the three categories, the init marker on a mutable        *)
(* receiver, and the two ways of not being exported.                       *)
(***************************************************************************)
NearBindgen == Attr(<<"near_bindgen">>)

SelfC == TypePath(<<"C">>)

SelfD == TypePath(<<"D">>)

SelfPtr == [shape |-> "Ptr", elem |-> TypePath(<<"u32">>)]

Methods ==
    { Method("get", "Public", <<>>, <<Receiver(FALSE)>>),
      Method("get", "Public", <<>>, <<Receiver(TRUE)>>),
      Method("get", "Public", <<Attr(<<"init">>)>>, <<Receiver(TRUE)>>),
      Method("new", "Public", <<Attr(<<"init">>)>>, <<>>),
      Method("set", "Public", <<Attr(<<"payable">>)>>, <<Receiver(TRUE)>>),
      Method("set", "Public", <<Attr(<<"private">>)>>, <<Receiver(TRUE)>>),
      Method("set", "Inherited", <<>>, <<Receiver(FALSE)>>) }

ImplItemLists ==
    {<<>>} \cup {<<m>> : m \in Methods}
           \cup { <<Method("get", "Public", <<>>, <<Receiver(FALSE)>>),
                    Method("set", "Inherited", <<>>, <<Receiver(FALSE)>>)>>,
                  <<Method("get", "Public", <<>>, <<Receiver(FALSE)>>),
                    Method("get", "Public", <<>>, <<Receiver(TRUE)>>)>> }

Impls ==
    { ItemImpl(a, h[1], h[2], l) :
        a \in {<<>>, <<NearBindgen>>},
        h \in { <<None, SelfC>>, <<None, SelfD>>, <<None, SelfPtr>>,
                <<Some(<<"I">>), SelfC>>, <<Some(<<"J">>), SelfC>> },
        l \in ImplItemLists }

Structs ==
    { [attrs |-> a, ident |-> "A"] :
        a \in { <<>>, <<Attr(<<"near_bindgen">>)>>,
                <<Derive(<<<<"Serialize">>>>)>>,
                <<Derive(<<<<"Clone">>, <<"near_sdk", "serde", "Deserialize">>>>)>> } }

Enums ==
    { [attrs |-> a, ident |-> "E"] :
        a \in { <<>>, <<Derive(<<<<"Serialize">>>>)>> } }

Types == { [attrs |-> <<>>, ident |-> "T"] }

Traits ==
    { [attrs |-> <<>>, ident |-> "I", items |-> <<TraitMethod("get", <<>>)>>],
      [attrs |-> <<>>, ident |-> "J", items |-> <<>>] }

(***************************************************************************)
(* The state of the Contract as one record, and its update.                *)
(***************************************************************************)
contract ==
    [name |-> name, top_level_attrs |-> top_level_attrs, traits |-> traits,
     interfaces |-> interfaces,
     methods |-> methods, init_methods |-> init_methods,
     view_methods |-> view_methods, change_methods |-> change_methods,
     items |-> items]

Becomes(c) ==
    /\ name' = c.name
    /\ top_level_attrs' = c.top_level_attrs
    /\ traits' = c.traits
    /\ interfaces' = c.interfaces
    /\ methods' = c.methods
    /\ init_methods' = c.init_methods
    /\ view_methods' = c.view_methods
    /\ change_methods' = c.change_methods
    /\ items' = c.items

Init ==
    /\ name = new.name
    /\ top_level_attrs = new.top_level_attrs
    /\ traits = new.traits
    /\ interfaces = new.interfaces
    /\ methods = new.methods
    /\ init_methods = new.init_methods
    /\ view_methods = new.view_methods
    /\ change_methods = new.change_methods
    /\ items = new.items
    /\ buf = <<>>
    /\ TS = TS_new
    /\ pushed = 0
    /\ last = None

(***************************************************************************)
(* Actions: push_items called with one declaration of each kind.           *)
(***************************************************************************)
Counted(it) ==
    /\ pushed' = pushed + 1
    /\ last' = Some(it)

PushImpl(item_impl) ==
    /\ pushed < MaxPushes
    /\ Becomes(push_items(contract, <<Item("Impl", item_impl)>>))
    /\ UNCHANGED <<buf, TS>>
    /\ Counted(Item("Impl", item_impl))

PushStruct(item_struct) ==
    /\ pushed < MaxPushes
    /\ Becomes(push_items(contract, <<Item("Struct", item_struct)>>))
    /\ UNCHANGED <<buf, TS>>
    /\ Counted(Item("Struct", item_struct))

PushEnum(item_enum) ==
    /\ pushed < MaxPushes
    /\ Becomes(push_items(contract, <<Item("Enum", item_enum)>>))
    /\ UNCHANGED <<buf, TS>>
    /\ Counted(Item("Enum", item_enum))

PushTypedef(item_type) ==
    /\ pushed < MaxPushes
    /\ Becomes(push_items(contract, <<Item("Type", item_type)>>))
    /\ UNCHANGED <<buf, TS>>
    /\ Counted(Item("Type", item_type))

PushTrait(item_trait) ==
    /\ pushed < MaxPushes
    /\ Becomes(push_items(contract, <<Item("Trait", item_trait)>>))
    /\ UNCHANGED <<buf, TS>>
    /\ Counted(Item("Trait", item_trait))

Next ==
    \/ \E item_impl \in Impls : PushImpl(item_impl)
    \/ \E item_struct \in Structs : PushStruct(item_struct)
    \/ \E item_enum \in Enums : PushEnum(item_enum)
    \/ \E item_type \in Types : PushTypedef(item_type)
    \/ \E item_trait \in Traits : PushTrait(item_trait)

Spec == Init /\ [][Next]_vars

(***************************************************************************)
(* One declaration pushed into a fresh Contract (specification SpecOne):   *)
(* every combination of the markers the classifier reads.                  *)
(***************************************************************************)
MethodAttrs ==
    { <<>>,
      <<Attr(<<"init">>)>>, <<Attr(<<"private">>)>>, <<Attr(<<"payable">>)>>,
      <<Attr(<<"init">>), Attr(<<"private">>)>>,
      <<Attr(<<"init">>), Attr(<<"payable">>)>>,
      <<Attr(<<"payable">>), Attr(<<"private">>)>>,
      <<Attr(<<"init">>), Attr(<<"payable">>), Attr(<<"private">>)>>,
      <<Attr(<<"near_sdk", "private">>)>> }

MethodInputs ==
    { <<>>, <<Receiver(FALSE)>>, <<Receiver(TRUE)>>,
      <<Typed(PatIdent("x"), TypePath(<<"U128">>))>>,
      <<Receiver(TRUE), Typed(PatIdent("x"), TypePath(<<"U128">>))>> }

AllMethods ==
    { Method("get", v, a, i) :
        v \in {"Public", "Inherited"}, a \in MethodAttrs, i \in MethodInputs }

AllImpls ==
    { ItemImpl(a, t, ty, l) :
        a \in { <<>>, <<NearBindgen>>, <<Attr(<<"near_sdk", "near_bindgen">>)>>,
                <<Attr(<<"not_near_bindgen">>)>> },
        t \in { None, Some(<<"I">>), Some(<<"near", "I">>) },
        ty \in { SelfC, SelfPtr },
        l \in {<<>>, <<[kind |-> "Const"]>>} \cup {<<m>> : m \in AllMethods} }

NextOne ==
    \/ \E item_impl \in AllImpls : pushed = 0 /\ PushImpl(item_impl)
    \/ \E item_struct \in Structs : pushed = 0 /\ PushStruct(item_struct)
    \/ \E item_enum \in Enums : pushed = 0 /\ PushEnum(item_enum)
    \/ \E item_type \in Types : pushed = 0 /\ PushTypedef(item_type)
    \/ \E item_trait \in Traits : pushed = 0 /\ PushTrait(item_trait)

SpecOne == Init /\ [][NextOne]_vars

(***************************************************************************)
(* Files pushed one after another (specification SpecAst).  A file is a    *)
(* list of declarations of which a middle part is nested in inline modules *)
(* up to MaxModDepth deep; a module without a body (mod m;) stands alone.  *)
(***************************************************************************)
AstLeaves ==
    { Item("Impl", ItemImpl(<<NearBindgen>>, None, SelfC,
                            <<Method("get", "Public", <<>>, <<Receiver(FALSE)>>)>>)),
      Item("Struct", [attrs |-> <<NearBindgen, Derive(<<<<"Serialize">>>>)>>,
                      ident |-> "A"]),
      Item("Trait", [attrs |-> <<>>, ident |-> "I",
                     items |-> <<TraitMethod("get", <<>>)>>]) }

AstBefore ==
    { <<>>,
      <<Item("Impl", ItemImpl(<<NearBindgen>>, None, SelfD,
                              <<Method("get", "Public", <<>>, <<Receiver(TRUE)>>)>>))>> }

AstAfter == { <<>>, <<Item("Type", [attrs |-> <<>>, ident |-> "T"])>> }

RECURSIVE Nest(_, _)
Nest(depth, its) ==
    IF depth = 0 THEN its
    ELSE <<Item("Mod", ItemMod(Some(Nest(depth - 1, its))))>>

Asts ==
    { File(<<Doc("a")>>, before \o Nest(depth, middle) \o after) :
        before \in AstBefore,
        middle \in {<<>>} \cup {<<it>> : it \in AstLeaves},
        after \in AstAfter,
        depth \in 0 .. MaxModDepth }
    \cup { File(<<Doc("b")>>, <<Item("Mod", ItemMod(None))>>) }

PushAst(ast) ==
    /\ pushed < MaxPushes
    /\ Becomes(push_ast(contract, ast))
    /\ UNCHANGED <<buf, TS>>
    /\ Counted(Item("File", ast))

NextAst == \E ast \in Asts : PushAst(ast)

SpecAst == Init /\ [][NextAst]_vars

(***************************************************************************)
(* Files pushed in one order or the other (specification SpecOrder):       *)
(* implementations of two owning types and two interfaces whose methods    *)
(* have different names, one whose method has the name of another's, the   *)
(* definitions of two interfaces, one of them in two versions, a struct.   *)
(***************************************************************************)
OrderImpls ==
    { ItemImpl(<<NearBindgen>>, None, SelfC,
               <<Method("get", "Public", <<>>, <<Receiver(FALSE)>>)>>),
      ItemImpl(<<NearBindgen>>, None, SelfC,
               <<Method("len", "Public", <<>>, <<Receiver(FALSE)>>)>>),
      ItemImpl(<<NearBindgen>>, None, SelfD,
               <<Method("set", "Public", <<>>, <<Receiver(TRUE)>>)>>),
      ItemImpl(<<NearBindgen>>, None, SelfD,
               <<Method("get", "Public", <<>>, <<Receiver(TRUE)>>)>>),
      ItemImpl(<<NearBindgen>>, Some(<<"I">>), SelfC,
               <<Method("put", "Inherited", <<>>, <<Receiver(TRUE)>>)>>),
      ItemImpl(<<NearBindgen>>, Some(<<"J">>), SelfC,
               <<Method("new", "Inherited", <<Attr(<<"init">>)>>, <<>>)>>) }

OrderTraits ==
    { [attrs |-> <<>>, ident |-> "I", items |-> <<TraitMethod("put", <<>>)>>],
      [attrs |-> <<>>, ident |-> "I", items |-> <<>>],
      [attrs |-> <<>>, ident |-> "J", items |-> <<TraitMethod("new", <<>>)>>] }

OrderDecls ==
    { Item("Impl", i) : i \in OrderImpls } \cup { Item("Trait", t) : t \in OrderTraits }
      \cup { Item("Struct", [attrs |-> <<Derive(<<<<"Serialize">>>>)>>, ident |-> "A"]) }

OrderAsts ==
    { File(<<>>, its) :
        its \in { <<d>> : d \in OrderDecls }
                \cup { <<Item("Trait", t), Item("Impl", i)>> :
                          t \in OrderTraits, i \in OrderImpls }
                \cup { <<Item("Mod", ItemMod(Some(<<Item("Impl", i)>>)))>> :
                          i \in OrderImpls } }

NextOrder == \E ast \in OrderAsts : PushAst(ast)

SpecOrder == Init /\ [][NextOrder]_vars

(***************************************************************************)
(* Files given to emit_ts one after another (specification SpecEmit): a    *)
(* trait and its implementation in one file, in either order, or in two    *)
(* files; an implementation of a trait that is never defined; a method the *)
(* trait does not have; a bare implementation.                             *)
(***************************************************************************)
EmitTrait ==
    Item("Trait", [attrs |-> <<Doc("I")>>, ident |-> "I",
                   items |-> <<TraitMethod("get", <<Doc("I::get")>>)>>])

EmitImpl ==
    Item("Impl", ItemImpl(<<Doc("C as I"), NearBindgen>>, Some(<<"I">>), SelfC,
                          <<Method("get", "Inherited", <<Doc("C::get")>>,
                                   <<Receiver(FALSE)>>)>>))

EmitBare ==
    Item("Impl", ItemImpl(<<Doc("C"), NearBindgen>>, None, SelfC,
                          <<Method("get", "Public", <<Doc("C::get")>>,
                                   <<Receiver(FALSE)>>)>>))

EmitDecls ==
    { EmitTrait, EmitImpl, EmitBare,
      Item("Trait", [attrs |-> <<>>, ident |-> "I",
                     items |-> <<TraitMethod("put", <<Doc("I::put")>>)>>]),
      Item("Impl", ItemImpl(<<NearBindgen>>, Some(<<"I">>), SelfC,
                            <<Method("get", "Inherited", <<>>, <<Receiver(FALSE)>>),
                              Method("set", "Inherited",
                                     <<Doc("C::set"), Attr(<<"payable">>)>>,
                                     <<Receiver(TRUE)>>)>>)),
      Item("Impl", ItemImpl(<<NearBindgen>>, Some(<<"J">>), SelfC,
                            <<Method("get", "Inherited", <<Doc("C::get")>>,
                                     <<Receiver(FALSE)>>)>>)) }

EmitFiles ==
    { File(<<>>, its) :
        its \in {<<>>} \cup {<<it>> : it \in EmitDecls}
                \cup { <<x, y>> : x, y \in {EmitTrait, EmitImpl, EmitBare} }
                \cup { <<EmitImpl, Item("Mod", ItemMod(Some(<<EmitTrait>>)))>> } }

\* One iteration of the loop of emit_ts.
EmitTs(ast) ==
    /\ pushed < MaxPushes
    /\ Becomes(forward_traits(contract, ast.items))
    /\ buf' = buf \o ts_items(ast.items, forward_traits(contract, ast.items))
    /\ UNCHANGED TS
    /\ Counted(Item("File", ast))

NextEmit == \E ast \in EmitFiles : EmitTs(ast)

SpecEmit == Init /\ [][NextEmit]_vars

(***************************************************************************)
(* Types given to ts_type (specification SpecType).  Nested(d): the        *)
(* wrappers Option, Vec and HashMap nested d deep over two names, one side *)
(* of a HashMap being a name.  Around them, not as deep: the other names   *)
(* and spellings, parentheses and tuples, and wrappers written with the    *)
(* wrong arguments, alone and inside another type; references, pointers.   *)
(***************************************************************************)
TypeAtoms == { Named("U128"), Named("u64") }

RECURSIVE Nested(_)
Nested(depth) ==
    IF depth = 0 THEN TypeAtoms
    ELSE LET inner == Nested(depth - 1) IN
         TypeAtoms
           \cup { Generic(w, <<e>>) : w \in {"Option", "Vec"}, e \in inner }
           \cup { Generic("HashMap", <<k, v>>) : k \in TypeAtoms, v \in inner }
           \cup { Generic("HashMap", <<k, v>>) : k \in inner, v \in TypeAtoms }

OtherNames ==
    { Named(s) : s \in {"bool", "u32", "i8", "String", "AccountId", "string"} }
      \cup { TypePathArgs(<<"near_sdk", "json_types", "U64">>, PathArgumentsNone) }

OtherSpellings ==
    { Generic(w, <<e>>) : w \in {"HashSet", "BTreeSet"}, e \in Nested(1) }
      \cup { Generic("BTreeMap", <<k, v>>) : k \in TypeAtoms, v \in Nested(1) }
      \cup { Generic(w, <<Generic("BTreeSet", <<e>>)>>) :
                w \in {"Option", "Vec"}, e \in TypeAtoms }
      \cup { Generic(w1, <<Generic(w2, <<e>>)>>) :
                w1 \in {"Option", "Vec"}, w2 \in {"Option", "Vec"}, e \in OtherNames }

Grouped ==
    LET tuples == { TypeTuple(es) :
                      es \in {<<>>, <<Named("U128")>>,
                              <<Named("U128"), Named("String"),
                                Generic("Vec", <<Named("u32")>>)>>}
                             \cup { <<a, b>> : a, b \in Nested(1) } }
        parens == { TypeParen(e) : e \in Nested(1) \cup {TypeParen(Named("U128"))} }
    IN  tuples \cup parens
          \cup { Generic(w, <<e>>) : w \in {"Option", "Vec"}, e \in parens }
          \cup { Generic(w, <<TypeTuple(es)>>) :
                    w \in {"Option", "Vec"},
                    es \in {<<>>, <<Named("U128"), Generic("Option", <<Named("u64")>>)>>} }

Misused ==
    LET wrappers == {"Option", "Vec", "HashSet", "BTreeSet", "HashMap", "BTreeMap"}
        written  == { PathArgumentsNone, AngleBracketed(<<GenericLifetime>>),
                      AngleBracketed(<<GenericType(Named("U128")), GenericLifetime>>) }
                    \cup { AngleBracketed([k \in 1 .. n |-> GenericType(Named("U128"))]) :
                             n \in 0 .. 3 }
        alone    == { TypePathArgs(<<w>>, a) : w \in wrappers, a \in written }
    IN  alone \cup { Generic("Vec", <<m>>) : m \in alone }
              \cup { Generic("HashMap", <<Named("U128"), m>>) : m \in alone }
              \cup { TypeTuple(<<Named("U128"), m>>) : m \in alone }

\* Shapes that are no path, parentheses or tuple: shared references and raw
\* pointers to names, alone and inside a wrapper, a tuple or parentheses.
OtherShapes ==
    LET alone == { TypeReference(Named(s)) : s \in {"String", "bool", "u32", "TokenId"} }
                   \cup { TypePtr(Named("u32")),
                          TypeReference(TypeReference(Named("u32"))) }
    IN  alone \cup { Generic(w, <<e>>) : w \in {"Option", "Vec"}, e \in alone }
              \cup { Generic("HashMap", <<Named("U128"), e>>) : e \in alone }
              \cup { TypeTuple(<<Named("U128"), e>>) : e \in alone }
              \cup { TypeParen(e) : e \in alone }

TypeExprs ==
    Nested(MaxTypeDepth) \cup OtherNames \cup OtherSpellings \cup Grouped \cup Misused
      \cup OtherShapes

\* A call of ts_type; buf holds what it gives.
TsType(ty) ==
    /\ pushed = 0
    /\ buf' = <<ts_type(ty)>>
    /\ UNCHANGED TS
    /\ Becomes(contract)
    /\ Counted(Item("ts_type", ty))

NextType == \E ty \in TypeExprs : TsType(ty)

SpecType == Init /\ [][NextType]_vars

(***************************************************************************)
(* Methods given to ts_sig (specification SpecSig): every combination of   *)
(* the markers ts_sig reads, of a receiver, of parameters (none, one, two, *)
(* one whose pattern is no identifier, one of an unsupported type) and of  *)
(* a return type (none, a type, the promise types, an unsupported type).   *)
(***************************************************************************)
SigAttrs ==
    { <<>>, <<Attr(<<"init">>)>>, <<Attr(<<"payable">>)>>,
      <<Attr(<<"init">>), Attr(<<"payable">>)>>,
      <<Attr(<<"near_sdk", "init">>)>>, <<Attr(<<"near_sdk", "payable">>)>> }

SigReceivers == { <<>>, <<Receiver(FALSE)>>, <<Receiver(TRUE)>> }

SigParams ==
    { <<>>,
      <<Typed(PatIdent("x"), Named("U128"))>>,
      <<Typed(PatIdent("x"), Named("U128")),
        Typed(PatIdent("y"), Generic("Option", <<Named("String")>>))>>,
      <<Typed(PatWild, Named("u32"))>>,
      <<Typed(PatIdent("x"), Named("U128")), Typed(PatWild, Named("u32"))>>,
      <<Typed(PatIdent("p"), TypePtr(Named("u32")))>>,
      <<Typed(PatIdent("x"), Generic("Vec", <<TypePtr(Named("u32"))>>)),
        Typed(PatIdent("y"), Named("U128"))>> }

SigOutputs ==
    { ReturnDefault }
      \cup { ReturnType(ty) :
               ty \in { Named("u32"), Generic("Vec", <<Named("Token")>>),
                        TypeTuple(<<>>), Named("Promise"),
                        Generic("Promise", <<Named("u32")>>),
                        Named("PromiseOrValue"),
                        Generic("PromiseOrValue", <<Named("String")>>),
                        TypePathArgs(<<"near_sdk", "Promise">>, PathArgumentsNone),
                        TypePtr(Named("u32")) } }

SigMethods ==
    { MethodSig("f", a, r \o ps, o) :
        a \in SigAttrs, r \in SigReceivers, ps \in SigParams, o \in SigOutputs }

\* A call of ts_sig; buf holds what it gives.
TsSig(method) ==
    /\ pushed = 0
    /\ buf' = <<ts_sig(method)>>
    /\ UNCHANGED TS
    /\ Becomes(contract)
    /\ Counted(Item("ts_sig", method))

NextSig == \E method \in SigMethods : TsSig(method)

SpecSig == Init /\ [][NextSig]_vars

(***************************************************************************)
(* Files given to TS::ts_items one after another (specification SpecTS),   *)
(* until one panics.  A file holds up to two declarations: ones that are   *)
(* written, ones that are skipped, and ones at which the pass panics (a    *)
(* bare implementation on a pointer, a unit struct, an alias, a field or a *)
(* parameter of an unsupported type); or a module that holds two.          *)
(***************************************************************************)
Serialize == Derive(<<<<"Serialize">>>>)

TsWritten ==
    { Item("Type", [attrs |-> <<Doc("T")>>, ident |-> "T", ty |-> Named("u64")]),
      Item("Struct", [attrs |-> <<Serialize>>, ident |-> "A",
                      fields |-> [kind |-> "Named",
                                  named |-> <<[attrs |-> <<>>, ident |-> "f",
                                               ty |-> Named("u32")]>>]]),
      Item("Enum", [attrs |-> <<Serialize>>, ident |-> "E",
                    variants |-> <<[attrs |-> <<>>, ident |-> "V1"]>>]),
      Item("Impl", ItemImpl(<<NearBindgen>>, None, SelfC,
                            <<MethodSig("get", <<>>, <<Receiver(FALSE)>>,
                                        ReturnType(Named("u32")))>>)),
      Item("Impl", ItemImpl(<<NearBindgen>>, Some(<<"I">>), SelfC,
                            <<MethodSig("set", <<>>, <<Receiver(TRUE)>>,
                                        ReturnDefault)>>)) }

TsSkipped ==
    { Item("Struct", [attrs |-> <<>>, ident |-> "B", fields |-> [kind |-> "Unit"]]),
      Item("Trait", [attrs |-> <<>>, ident |-> "I", items |-> <<>>]) }

TsPanicking ==
    { Item("Impl", ItemImpl(<<NearBindgen>>, None, SelfPtr,
                            <<MethodSig("set", <<>>, <<Receiver(TRUE)>>,
                                        ReturnDefault)>>)),
      Item("Impl", ItemImpl(<<NearBindgen>>, Some(<<"J">>), SelfC,
                            <<MethodSig("put", <<>>,
                                        <<Receiver(TRUE),
                                          Typed(PatIdent("p"), TypePtr(Named("u32")))>>,
                                        ReturnDefault)>>)),
      Item("Struct", [attrs |-> <<Serialize>>, ident |-> "U",
                      fields |-> [kind |-> "Unit"]]),
      Item("Struct", [attrs |-> <<Serialize>>, ident |-> "P",
                      fields |-> [kind |-> "Unnamed",
                                  unnamed |-> <<[ty |-> Named("u32")],
                                                [ty |-> TypePtr(Named("u32"))]>>]]),
      Item("Type", [attrs |-> <<>>, ident |-> "Q", ty |-> TypePtr(Named("u32"))]) }

TsUnits ==
    LET decls == TsWritten \cup TsSkipped \cup TsPanicking
        pairs == { <<x, y>> : x \in TsWritten \cup TsSkipped, y \in decls }
    IN  { File(<<>>, its) :
            its \in {<<>>} \cup { <<d>> : d \in decls } \cup pairs
                    \cup { <<Item("Mod", ItemMod(Some(its2)))>> : its2 \in pairs } }

\* A call of TS::ts_items with the declarations of a file.
TsItems(ast) ==
    /\ pushed < MaxPushes
    /\ ~panics(TS)
    /\ TS' = TS_ts_items(TS, ast.items)
    /\ Becomes(contract)
    /\ UNCHANGED buf
    /\ Counted(Item("File", ast))

NextTS == \E ast \in TsUnits : TsItems(ast)

SpecTS == Init /\ [][NextTS]_vars

(***************************************************************************)
(* Vocabulary of the properties, read off the declarations themselves.     *)
(***************************************************************************)
Range(seq) == {seq[k] : k \in DOMAIN seq}

IsPrefix(s, t) == Len(s) <= Len(t) /\ SubSeq(t, 1, Len(s)) = s

Suffix(s, t) == SubSeq(t, Len(s) + 1, Len(t))

Idents(ms) == [k \in DOMAIN ms |-> ms[k].sig.ident]

\* The marker is among the attributes, written bare or qualified.
Marked(attrs, marker) ==
    \E k \in DOMAIN attrs :
        Len(attrs[k].path) > 0 /\ attrs[k].path[Len(attrs[k].path)] = marker

Implements(item_impl) == item_impl.trait_ # <<>>

PublicMarker(m) == m.vis = "Public"

MutableReceiver(m) ==
    /\ Len(m.sig.inputs) > 0
    /\ m.sig.inputs[1].kind = "Receiver"
    /\ m.sig.inputs[1].mutability

\* The methods of item_impl that are exported, in declaration order.
Exported(item_impl) ==
    SelectSeq(item_impl.items,
              LAMBDA m : /\ m.kind = "Method"
                         /\ PublicMarker(m) \/ Implements(item_impl)
                         /\ ~Marked(m.attrs, "private"))

\* push registers item_impl: it carries near_bindgen and exports a method.
Registers(item_impl) ==
    Marked(item_impl.attrs, "near_bindgen") /\ Len(Exported(item_impl)) > 0

Category(m) ==
    IF Marked(m.attrs, "init") THEN "init"
    ELSE IF MutableReceiver(m) THEN "change"
    ELSE "view"

InCategory(item_impl, cat) ==
    Idents(SelectSeq(Exported(item_impl), LAMBDA m : Category(m) = cat))

LastIs(tag) == last # None /\ last[1].tag = tag

LastItem == last[1].item

(***************************************************************************)
(* C1.  A method is exported exactly when (it carries the public marker or *)
(* its owning implementation implements an interface) and it is not marked *)
(* private: after a near_bindgen implementation was pushed into a fresh    *)
(* Contract, each of its methods is registered if and only if that holds.  *)
(***************************************************************************)
C1_ExportedIff ==
    (LastIs("Impl") /\ Marked(LastItem.attrs, "near_bindgen")) =>
        \A k \in DOMAIN LastItem.items :
            LET m == LastItem.items[k] IN
            m.kind = "Method" =>
                ( (m.sig.ident \in DOMAIN methods /\ methods[m.sig.ident][1] = m)
                  <=> ( (PublicMarker(m) \/ Implements(LastItem))
                        /\ ~Marked(m.attrs, "private") ) )

\* A method without the public marker registered through an interface.
C1_Witness ==
    /\ LastIs("Impl")
    /\ Implements(LastItem)
    /\ \E k \in DOMAIN LastItem.items :
           LET m == LastItem.items[k] IN
           /\ m.kind = "Method"
           /\ ~PublicMarker(m)
           /\ m.sig.ident \in DOMAIN methods
           /\ methods[m.sig.ident] = <<m, LastItem>>

(***************************************************************************)
(* C2.  A push that registers an implementation appends the name of each   *)
(* exported method to exactly one category list: init if the method has    *)
(* the init marker (whatever its receiver), otherwise change if its first  *)
(* parameter is a mutable receiver, otherwise view; each list grows by the *)
(* names of its category, in declaration order, and by nothing else.       *)
(***************************************************************************)
C2_OneCategoryByPrecedence ==
    [][ (LastIs("Impl")' /\ Registers(LastItem')) =>
            /\ init_methods' = init_methods \o InCategory(LastItem', "init")
            /\ change_methods' = change_methods \o InCategory(LastItem', "change")
            /\ view_methods' = view_methods \o InCategory(LastItem', "view") ]_vars

\* An init method with a mutable receiver went to the init list alone.
C2_Witness ==
    /\ LastIs("Impl")
    /\ Registers(LastItem)
    /\ \E k \in DOMAIN LastItem.items :
           LET m == LastItem.items[k] IN
           /\ Marked(m.attrs, "init")
           /\ MutableReceiver(m)
           /\ m.sig.ident \in Range(init_methods)
           /\ m.sig.ident \notin Range(change_methods)

(***************************************************************************)
(* C3.  As claimed: an exported method whose receiver is mutable is in the *)
(* change list after it is pushed, whatever its other markers.             *)
(***************************************************************************)
C3_MutableAlwaysChange ==
    (LastIs("Impl") /\ Registers(LastItem)) =>
        \A k \in DOMAIN Exported(LastItem) :
            MutableReceiver(Exported(LastItem)[k]) =>
                Exported(LastItem)[k].sig.ident \in Range(change_methods)

(***************************************************************************)
(* C3, amended.  An exported method whose receiver is mutable and that has *)
(* no init marker is appended to the change list whatever its other        *)
(* markers (payable); with the init marker it is appended to the init list.*)
(***************************************************************************)
C3_MutableChangeUnlessInit ==
    [][ (LastIs("Impl")' /\ Registers(LastItem')) =>
            \A k \in DOMAIN Exported(LastItem') :
                LET m == Exported(LastItem')[k] IN
                MutableReceiver(m) =>
                    IF Marked(m.attrs, "init")
                    THEN m.sig.ident \in Range(Suffix(init_methods, init_methods'))
                    ELSE m.sig.ident \in Range(Suffix(change_methods, change_methods')) ]_vars

\* A payable method with a mutable receiver is in the change list.
C3_Witness ==
    /\ LastIs("Impl")
    /\ Registers(LastItem)
    /\ \E k \in DOMAIN Exported(LastItem) :
           LET m == Exported(LastItem)[k] IN
           /\ MutableReceiver(m)
           /\ Marked(m.attrs, "payable")
           /\ change_methods # <<>>
           /\ change_methods[Len(change_methods)] = m.sig.ident

(***************************************************************************)
(* C4.  When several pushed implementations declare an exported method of  *)
(* the same name, the method map holds for that name the (method, owning   *)
(* declaration) pair of the most recently pushed one, and no category-list *)
(* entry is removed: the name occurs in the three lists once per exported  *)
(* method of that name in the retained implementations.                    *)
(***************************************************************************)
Declaring(n) ==
    { k \in DOMAIN items :
        /\ items[k].tag = "Impl"
        /\ n \in Range(Idents(Exported(items[k].item))) }

Occurrences(n, list) == Cardinality({k \in DOMAIN list : list[k] = n})

Listed(n) ==
    Occurrences(n, init_methods) + Occurrences(n, view_methods)
        + Occurrences(n, change_methods)

Declarations(n) ==
    Cardinality(UNION { { <<k, j>> : j \in { j \in DOMAIN Exported(items[k].item) :
                                               Exported(items[k].item)[j].sig.ident = n } } :
                        k \in { k \in DOMAIN items : items[k].tag = "Impl" } })

C4_LastPushWinsEntriesStay ==
    \A n \in DOMAIN methods :
        /\ Declaring(n) # {}
        /\ LET k  == CHOOSE k \in Declaring(n) : \A k2 \in Declaring(n) : k2 <= k
               ex == SelectSeq(Exported(items[k].item), LAMBDA m : m.sig.ident = n)
           IN  methods[n] = <<ex[Len(ex)], items[k].item>>
        /\ Listed(n) = Declarations(n)

\* Two retained implementations export the same name; both entries are
\* listed and the map holds the pair of the second implementation.
C4_Witness ==
    \E n \in DOMAIN methods :
        \E k1, k2 \in Declaring(n) :
            /\ k1 < k2
            /\ k2 = Len(items)
            /\ items[k1].item # items[k2].item
            /\ Listed(n) >= 2
            /\ methods[n][2] = items[k2].item

(***************************************************************************)
(* C5.  As claimed: the name is the owning type of the first bare          *)
(* implementation that was registered, whatever was pushed afterwards.     *)
(***************************************************************************)
BareNamed ==
    { k \in DOMAIN items :
        /\ items[k].tag = "Impl"
        /\ ~Implements(items[k].item)
        /\ items[k].item.self_ty.shape = "Path" }

C5_FirstBareImplNames ==
    IF BareNamed = {} THEN name = None
    ELSE LET k == CHOOSE k \in BareNamed : \A k2 \in BareNamed : k <= k2
         IN  name = Some(join_path(items[k].item.self_ty.path))

(***************************************************************************)
(* C5, amended.  The name is absent until a near_bindgen bare              *)
(* implementation with an exported method and a path as owning type is     *)
(* pushed, and each such push sets it: the name is the owning type of the  *)
(* most recently pushed one.                                               *)
(***************************************************************************)
C5_LastBareImplNames ==
    IF BareNamed = {} THEN name = None
    ELSE LET k == CHOOSE k \in BareNamed : \A k2 \in BareNamed : k2 <= k
         IN  name = Some(join_path(items[k].item.self_ty.path))

\* Two bare implementations on different owning types were registered.
C5_Witness ==
    \E k1, k2 \in BareNamed :
        /\ k1 < k2
        /\ k2 = Len(items)
        /\ items[k1].item.self_ty # items[k2].item.self_ty
        /\ name = Some(join_path(items[k2].item.self_ty.path))

(***************************************************************************)
(* C6.  As claimed: a bare implementation with exported methods whose      *)
(* owning type is not a simple name aborts the build, so no such           *)
(* implementation is ever recorded in the Contract.                        *)
(***************************************************************************)
C6_MalformedSelfTypeRejected ==
    \A k \in DOMAIN items :
        (items[k].tag = "Impl" /\ ~Implements(items[k].item))
            => items[k].item.self_ty.shape = "Path"

(***************************************************************************)
(* C7.  A push that registers an interface-implementing declaration        *)
(* appends its interface name to the end of the interface list and leaves  *)
(* the name alone; no other push changes the interface list.  So the list  *)
(* is the interface names in push order, one entry per declaration.        *)
(***************************************************************************)
C7_InterfacesInPushOrder ==
    [][ IF LastIs("Impl")' /\ Registers(LastItem') /\ Implements(LastItem')
        THEN /\ interfaces' = Append(interfaces, join_path(LastItem'.trait_[1]))
             /\ name' = name
        ELSE interfaces' = interfaces ]_vars

\* The same interface implemented by two declarations is listed twice.
C7_Witness ==
    /\ Len(interfaces) = 2
    /\ interfaces[1] = interfaces[2]
    /\ LastIs("Impl")
    /\ Implements(LastItem)

(***************************************************************************)
(* C8.  As claimed: every name in the interface list is a key of the       *)
(* interface registry.                                                     *)
(***************************************************************************)
C8_InterfacesAreRegistered ==
    \A k \in DOMAIN interfaces : interfaces[k] \in DOMAIN traits

(***************************************************************************)
(* C8, amended.  Pushing an implementation leaves the interface registry   *)
(* as it was: the registry changes only when an interface definition is    *)
(* pushed, which puts the descriptor of that definition under its name.    *)
(* A name of the interface list is a key only if its definition was pushed.*)
(***************************************************************************)
C8_RegistryOnlyFromDefinitions ==
    [][ IF LastIs("Trait")'
        THEN /\ DOMAIN traits' = DOMAIN traits \cup {LastItem'.ident}
             /\ traits'[LastItem'.ident].item_trait = LastItem'
             /\ \A n \in DOMAIN traits : n # LastItem'.ident => traits'[n] = traits[n]
        ELSE traits' = traits ]_vars

\* An interface implementation was registered and its interface is unknown.
C8_Witness ==
    /\ LastIs("Impl")
    /\ Registers(LastItem)
    /\ Implements(LastItem)
    /\ join_path(LastItem.trait_[1]) \in Range(interfaces)
    /\ join_path(LastItem.trait_[1]) \notin DOMAIN traits

(***************************************************************************)
(* C9.  Pushing an implementation that exports no method, or that lacks    *)
(* the near_bindgen marker even though it has public methods, leaves the   *)
(* Contract as it was, in every field.                                     *)
(***************************************************************************)
C9_SkippedImplChangesNothing ==
    [][ (LastIs("Impl")' /\ ~Registers(LastItem')) =>
            UNCHANGED <<name, top_level_attrs, traits, interfaces, methods,
                        init_methods, view_methods, change_methods, items>> ]_vars

\* An implementation with a public method and no near_bindgen marker was
\* pushed into a Contract that already held a declaration.
C9_Witness ==
    /\ LastIs("Impl")
    /\ ~Marked(LastItem.attrs, "near_bindgen")
    /\ \E k \in DOMAIN LastItem.items :
           PublicMarker(LastItem.items[k]) /\ ~Marked(LastItem.items[k].attrs, "private")
    /\ Len(items) > 0
    /\ methods # EmptyMap

(***************************************************************************)
(* C10.  A pushed struct or enum is appended to the retained declarations  *)
(* if and only if it derives Serialize or Deserialize, otherwise the list  *)
(* is left as it was; a pushed type alias is always appended.  Appending   *)
(* at the end keeps the retained declarations in push order.               *)
(***************************************************************************)
Derives(item, macros) ==
    \E k \in DOMAIN item.attrs :
        /\ item.attrs[k].path = <<"derive">>
        /\ \E j \in DOMAIN item.attrs[k].nested :
               LET p == item.attrs[k].nested[j] IN
               Len(p) > 0 /\ p[Len(p)] \in macros

DerivesSerde(item) == Derives(item, {"Serialize", "Deserialize"})

C10_RetainedDeclarations ==
    [][ /\ (LastIs("Struct")' \/ LastIs("Enum")') =>
               IF DerivesSerde(LastItem')
               THEN items' = Append(items, last'[1])
               ELSE items' = items
        /\ LastIs("Type")' => items' = Append(items, last'[1]) ]_vars

\* A struct deriving only Deserialize was retained, then a type alias.
C10_Witness ==
    /\ Len(items) = 2
    /\ items[1].tag = "Struct"
    /\ Derives(items[1].item, {"Deserialize"})
    /\ ~Derives(items[1].item, {"Serialize"})
    /\ items[2].tag = "Type"
    /\ LastIs("Type")

(***************************************************************************)
(* C11.  As claimed: pushing a file whose declarations are nested in       *)
(* inline modules, to any depth, gives the same Contract in every field as *)
(* pushing the file in which each module is replaced, in place, by its     *)
(* inner declarations.                                                     *)
(***************************************************************************)
RECURSIVE Flat(_)
Flat(its) ==
    IF its = <<>> THEN <<>>
    ELSE LET it == Head(its)
         IN  (IF it.tag # "Mod" THEN <<it>>
              ELSE IF it.item.content = <<>> THEN <<>>
              ELSE Flat(it.item.content[1]))
             \o Flat(Tail(its))

C11_FlattenedSameModel ==
    [][ LastIs("File")' =>
            contract' = push_ast(contract, File(LastItem'.attrs, Flat(LastItem'.items)))
      ]_vars

\* The same, but for the attributes of the file: every other field is the
\* one of the flattened file.
C11_FlattenedSameButFileAttrs ==
    [][ LastIs("File")' =>
            [contract' EXCEPT !.top_level_attrs = <<>>]
              = [push_ast(contract, File(LastItem'.attrs, Flat(LastItem'.items)))
                    EXCEPT !.top_level_attrs = <<>>]
      ]_vars

(***************************************************************************)
(* C12.  As claimed: the documentation written for a method of an          *)
(* interface implementation includes the doc lines of the same-named       *)
(* method of the interface whenever the interface is registered, also when *)
(* its definition is in a file processed after the file of the             *)
(* implementation.                                                         *)
(***************************************************************************)
DocLines(attrs) ==
    LET docs == SelectSeq(attrs, LAMBDA a : a.path = <<"doc">>)
    IN  [k \in DOMAIN docs |-> docs[k].lit]

EndsWith(s, t) == Len(t) <= Len(s) /\ SubSeq(s, Len(s) - Len(t) + 1, Len(s)) = t

C12_LateInterfaceDocsIncluded ==
    \A k \in DOMAIN buf :
        LET b == buf[k] IN
        ( /\ b.method # None
          /\ b.trait_ # None
          /\ b.trait_[1] \in DOMAIN traits
          /\ b.method[1] \in DOMAIN traits[b.trait_[1]].methods )
        => EndsWith(b.docs, DocLines(traits[b.trait_[1]].methods[b.method[1]].attrs))

(***************************************************************************)
(* C13.  The documentation written for a method of an interface            *)
(* implementation is its own doc lines followed by the doc lines of the    *)
(* same-named method of the interface descriptor, when the interface is    *)
(* registered at that time and has that method; for a method of a bare     *)
(* implementation, of an unregistered interface, or that the interface     *)
(* does not have, it is its own doc lines only.  Nothing fails.            *)
(***************************************************************************)
EffectiveDocs(m, item_impl, registry) ==
    LET t == IF Implements(item_impl) THEN join_path(item_impl.trait_[1]) ELSE "" IN
    IF /\ Implements(item_impl)
       /\ t \in DOMAIN registry
       /\ m.sig.ident \in DOMAIN registry[t].methods
    THEN DocLines(m.attrs) \o DocLines(registry[t].methods[m.sig.ident].attrs)
    ELSE DocLines(m.attrs)

RECURSIVE MethodDocs(_, _)
MethodDocs(its, registry) ==
    IF its = <<>> THEN <<>>
    ELSE LET it == Head(its)
         IN  (IF it.tag = "Impl" /\ Registers(it.item)
              THEN [k \in DOMAIN Exported(it.item) |->
                       EffectiveDocs(Exported(it.item)[k], it.item, registry)]
              ELSE <<>>)
             \o MethodDocs(Tail(its), registry)

WrittenMethodDocs(blocks) ==
    LET ms == SelectSeq(blocks, LAMBDA b : b.method # None)
    IN  [k \in DOMAIN ms |-> ms[k].docs]

RECURSIVE Unparen(_)
Unparen(e) == IF e.shape = "Paren" THEN Unparen(e.elem) ELSE e

WrapperKind(e) ==
    IF e.shape # "Path" THEN "none"
    ELSE IF e.path = <<"Option">> THEN "nullable"
    ELSE IF e.path \in {<<"Vec">>, <<"HashSet">>, <<"BTreeSet">>} THEN "sequence"
    ELSE IF e.path \in {<<"HashMap">>, <<"BTreeMap">>} THEN "map"
    ELSE "none"

Class(e) ==
    IF WrapperKind(Unparen(e)) = "nullable" THEN "Nullable"
    ELSE IF WrapperKind(Unparen(e)) = "sequence" THEN "Sequence"
    ELSE "Scalar"

\* The type arguments e is written with, when they are all types.
Written(e) ==
    IF /\ e.arguments.kind = "AngleBracketed"
       /\ \A k \in DOMAIN e.arguments.args : e.arguments.args[k].kind = "Type"
    THEN [k \in DOMAIN e.arguments.args |-> e.arguments.args[k].ty]
    ELSE <<>>

\* e is a wrapper of the kind, written with count type arguments.
IsWrapper(e, kind, count) ==
    /\ WrapperKind(e) = kind
    /\ e.arguments.kind = "AngleBracketed"
    /\ Len(e.arguments.args) = count
    /\ Len(Written(e)) = count

IsName(e) == e.shape = "Path" /\ WrapperKind(e) = "none"

RECURSIVE Spelled(_)
Spelled(path) ==
    IF Len(path) = 1 THEN path[1] ELSE path[1] \o "::" \o Spelled(Tail(path))

TargetName(e) ==
    IF e.path = <<"bool">> THEN "boolean"
    ELSE IF e.path \in {<<"i8">>, <<"u8">>, <<"i16">>, <<"u16">>, <<"i32">>,
                        <<"u32">>, <<"u64">>} THEN "number"
    ELSE IF e.path = <<"String">> THEN "string"
    ELSE Spelled(e.path)

Projects(e) == "text" \in DOMAIN ts_type(e)

Projected(e) == ts_type(e).text

Called == LastIs("ts_type")

Given == last[1].item

Returned(text) == buf = <<[text |-> text]>>

(***************************************************************************)
(* C14.  A nullable wrapper around a nullable wrapper does not collapse    *)
(* and gets no parentheses: for every name T, Option<Option<T>> projects   *)
(* to the target name of T followed by "|null|null".                       *)
(***************************************************************************)
C14_NullableOfNullable ==
    ( /\ Called
      /\ IsWrapper(Given, "nullable", 1)
      /\ IsWrapper(Written(Given)[1], "nullable", 1)
      /\ IsName(Written(Written(Given)[1])[1]) )
    => Returned(TargetName(Written(Written(Given)[1])[1]) \o "|null|null")

C14_Witness ==
    /\ Called
    /\ Given = Generic("Option", <<Generic("Option", <<Named("AccountId")>>)>>)
    /\ Returned("AccountId|null|null")

(***************************************************************************)
(* C15.  As claimed: the nullable wrapper embeds the projection of its     *)
(* argument in parentheses if the class of the argument is Nullable, and   *)
(* bare if it is Sequence or Scalar.                                       *)
(***************************************************************************)
C15_NullableParenthesizesNullable ==
    ( Called /\ IsWrapper(Given, "nullable", 1) /\ Projects(Written(Given)[1]) )
    => LET inner == Written(Given)[1] IN
       IF Class(inner) = "Nullable"
       THEN Returned("(" \o Projected(inner) \o ")|null")
       ELSE Returned(Projected(inner) \o "|null")

(***************************************************************************)
(* C15, amended.  The nullable wrapper embeds the projection of its        *)
(* argument bare, followed by "|null", whatever the class of the argument: *)
(* Nullable, Sequence or Scalar.                                           *)
(***************************************************************************)
C15_NullableEmbedsBare ==
    ( Called /\ IsWrapper(Given, "nullable", 1) /\ Projects(Written(Given)[1]) )
    => Returned(Projected(Written(Given)[1]) \o "|null")

\* The argument is of class Nullable and itself holds a sequence.
C15_Witness ==
    /\ Called
    /\ IsWrapper(Given, "nullable", 1)
    /\ Class(Written(Given)[1]) = "Nullable"
    /\ Given = Generic("Option", <<Generic("Option", <<Generic("Vec", <<Named("U128")>>)>>)>>)
    /\ Returned("U128[]|null|null")

(***************************************************************************)
(* C16.  The sequence wrapper, spelled Vec, HashSet or BTreeSet, projects  *)
(* to the projection of its argument followed by "[]", the argument in     *)
(* parentheses if and only if its class is Nullable, at every depth.       *)
(***************************************************************************)
C16_SequenceParenthesizesNullable ==
    ( Called /\ IsWrapper(Given, "sequence", 1) /\ Projects(Written(Given)[1]) )
    => LET inner == Written(Given)[1] IN
       IF Class(inner) = "Nullable"
       THEN Returned("(" \o Projected(inner) \o ")[]")
       ELSE Returned(Projected(inner) \o "[]")

\* A sequence of a nullable of a sequence of a nullable.
C16_Witness ==
    /\ Called
    /\ Given = Generic("Vec", <<Generic("Option", <<Generic("Vec", <<Named("U128")>>)>>)>>)
    /\ Returned("(U128[]|null)[]")

(***************************************************************************)
(* C17.  As claimed: over the types built from names by nesting the        *)
(* nullable, sequence and map wrappers, two different types never project  *)
(* to the same text.                                                       *)
(***************************************************************************)
WrapperNestings == Nested(MaxTypeDepth) \cup OtherNames \cup OtherSpellings

RECURSIVE Nesting(_)
Nesting(e) ==
    IF IsName(e) THEN <<"name", TargetName(e)>>
    ELSE <<WrapperKind(e)>> \o [k \in DOMAIN Written(e) |-> Nesting(Written(e)[k])]

\* Every type of the universe with what ts_type gives for it.
Projections ==
    { [type |-> e, gives |-> ts_type(e), nesting |-> Nesting(e)] :
        e \in WrapperNestings }

C17_DistinctTypesDistinctTexts ==
    (Called /\ Given \in WrapperNestings) =>
        \A p \in Projections : p.type # Given => p.gives # buf[1]

(***************************************************************************)
(* C17, amended.  Two types built from names by nesting the nullable,      *)
(* sequence and map wrappers project to the same text only if they are the *)
(* same nesting of wrapper kinds, whatever the spelling of each kind, over *)
(* names that have the same target name at each place.                     *)
(***************************************************************************)
C17_SameTextSameNesting ==
    (Called /\ Given \in WrapperNestings) =>
        \A p \in Projections : p.gives = buf[1] => p.nesting = Nesting(Given)

\* A nesting whose text another spelling of it gives too.
C17_Witness ==
    /\ Called
    /\ Given = Generic("Vec", <<Generic("Option", <<Named("u64")>>)>>)
    /\ Returned("(number|null)[]")
    /\ \E p \in Projections : p.type # Given /\ p.gives = buf[1]

(***************************************************************************)
(* C18.  The map wrapper, spelled HashMap or BTreeMap, with two type       *)
(* arguments projects to "Record<K, V>", K and V the projections of its    *)
(* arguments embedded bare whatever their class, and is of class Scalar:   *)
(* a sequence or nullable wrapper embeds it without parentheses.           *)
(***************************************************************************)
Suffixed(kind) == IF kind = "sequence" THEN "[]" ELSE "|null"

C18_MapIsScalarRecord ==
    Called =>
        /\ ( /\ IsWrapper(Given, "map", 2)
             /\ Projects(Written(Given)[1])
             /\ Projects(Written(Given)[2]) )
           => Returned("Record<" \o Projected(Written(Given)[1]) \o ", "
                           \o Projected(Written(Given)[2]) \o ">")
        /\ \A kind \in {"sequence", "nullable"} :
              ( /\ IsWrapper(Given, kind, 1)
                /\ IsWrapper(Written(Given)[1], "map", 2)
                /\ Projects(Written(Given)[1]) )
              => Returned(Projected(Written(Given)[1]) \o Suffixed(kind))

\* A sequence of maps whose key is of class Nullable.
C18_Witness ==
    /\ Called
    /\ Given = Generic("Vec", <<Generic("HashMap", <<Generic("Option", <<Named("U128")>>),
                                                     Named("u64")>>)>>)
    /\ Returned("Record<U128|null, number>[]")

(***************************************************************************)
(* C19.  As claimed: a nullable or sequence wrapper not written with one   *)
(* type argument (or with none), or a map wrapper not written with two,    *)
(* panics, the panic naming the wrapper that was written, the expected     *)
(* count and the actual count.                                             *)
(***************************************************************************)
Expected(e) == IF WrapperKind(e) = "map" THEN 2 ELSE 1

ArgCount(e) ==
    IF e.arguments.kind = "AngleBracketed" THEN Len(e.arguments.args) ELSE 0

Misuse(e) == WrapperKind(e) # "none" /\ ArgCount(e) # Expected(e)

CalledAs(e) ==
    IF WrapperKind(e) = "nullable" THEN "Option"
    ELSE IF WrapperKind(e) = "sequence" THEN "Vec"
    ELSE "HashMap"

RECURSIVE HoldsMisuse(_)
HoldsMisuse(e) ==
    CASE e.shape = "Paren" -> HoldsMisuse(e.elem)
      [] e.shape = "Tuple" -> \E k \in DOMAIN e.elems : HoldsMisuse(e.elems[k])
      [] e.shape = "Path"  ->
           /\ WrapperKind(e) # "none"
           /\ \/ Misuse(e)
              \/ \E k \in DOMAIN Written(e) : HoldsMisuse(Written(e)[k])
      [] OTHER -> FALSE

RECURSIVE CommaSeparated(_)
CommaSeparated(texts) ==
    IF Len(texts) = 1 THEN texts[1]
    ELSE texts[1] \o ", " \o CommaSeparated(Tail(texts))

C20_ParenthesesAndTuples ==
    Called =>
        /\ (Given.shape = "Paren" /\ Projects(Given.elem))
              => Returned(Projected(Given.elem))
        /\ (Given.shape = "Tuple" /\ Len(Given.elems) = 0) => Returned("void")
        /\ ( /\ Given.shape = "Tuple"
             /\ Len(Given.elems) >= 2
             /\ \A k \in DOMAIN Given.elems : Projects(Given.elems[k]) )
           => Returned("[" \o CommaSeparated([k \in DOMAIN Given.elems |->
                                                Projected(Given.elems[k])]) \o "]")
        /\ \A kind \in {"sequence", "nullable"} :
              (IsWrapper(Given, kind, 1) /\ Projects(Written(Given)[1])) =>
                  LET inner == Written(Given)[1] IN
                  /\ inner.shape = "Tuple"
                        => Returned(Projected(inner) \o Suffixed(kind))
                  /\ inner.shape = "Paren"
                        => buf = <<ts_type(Generic(Given.path[1], <<Unparen(inner)>>))>>

\* A sequence of a parenthesized nullable: the parentheses of the text are
\* the ones the class of the nullable asks for.
C20_Witness ==
    /\ Called
    /\ Given = Generic("Vec", <<TypeParen(Generic("Option", <<Named("U128")>>))>>)
    /\ Returned("(U128|null)[]")

(***************************************************************************)
(* C21.  As claimed: projecting a type of a shape the projector does not   *)
(* recognize, such as a raw pointer, panics, and the panic reports the     *)
(* source text of the unrecognized type.                                   *)
(***************************************************************************)
SourceText(e) ==
    CASE e.shape = "Ptr" -> "*const " \o Spelled(e.elem.path)
      [] e.shape = "Reference" -> "&" \o Spelled(e.elem.path)
      [] OTHER -> Spelled(e.path)

C21_UnsupportedShapeReportsSource ==
    (Called /\ Given.shape = "Ptr") =>
        /\ "panic" \in DOMAIN buf[1]
        /\ \E k \in DOMAIN buf[1].args : buf[1].args[k] = SourceText(Given)

(***************************************************************************)
(* C21, the part that holds.  A raw pointer panics with "type not          *)
(* supported", a panic without arguments, and so does every wrapper, tuple *)
(* or parenthesized type around it: no text is produced.                   *)
(***************************************************************************)
RECURSIVE HoldsPtr(_)
HoldsPtr(e) ==
    CASE e.shape = "Ptr" -> TRUE
      [] e.shape = "Paren" -> HoldsPtr(e.elem)
      [] e.shape = "Tuple" -> \E k \in DOMAIN e.elems : HoldsPtr(e.elems[k])
      [] e.shape = "Path" -> \E k \in DOMAIN Written(e) : HoldsPtr(Written(e)[k])
      [] OTHER -> FALSE

C21_UnsupportedShapePanics ==
    (Called /\ HoldsPtr(Given) /\ ~HoldsMisuse(Given)) =>
        buf = <<[panic |-> "type not supported", args |-> <<>>]>>

(***************************************************************************)
(* C22.  As claimed: a shared reference to a name projects as the name     *)
(* does: &String to "string", &bool to "boolean", &u32 to "number",        *)
(* &TokenId to "TokenId".                                                  *)
(***************************************************************************)
C22_SharedReferenceAsReferent ==
    (Called /\ Given.shape = "Reference" /\ IsName(Given.elem)) =>
        Returned(Projected(Given.elem))

(***************************************************************************)
(* Vocabulary of the properties of ts_sig, read off the method: its        *)
(* parameters other than the receiver, the slots of its argument list.     *)
(***************************************************************************)
SigCalled == LastIs("ts_sig")

SigGiven == last[1].item

SigText == buf[1].text

BareMarked(attrs, marker) == \E k \in DOMAIN attrs : attrs[k].path = <<marker>>

NonReceiver(m) == SelectSeq(m.sig.inputs, LAMBDA p : p.kind # "Receiver")

NamedParams(m) == SelectSeq(NonReceiver(m), LAMBDA p : p.pat.kind = "Ident")

ParamName(p) == IF p.pat.kind = "Ident" THEN p.pat.ident ELSE "_"

Entries(ps) == [k \in DOMAIN ps |-> ParamName(ps[k]) \o ": " \o Projected(ps[k].ty)]

Joined(texts) == IF Len(texts) = 0 THEN "" ELSE CommaSeparated(texts)

Aggregate(ps) == "{ " \o Joined(Entries(ps)) \o " }"

\* The slots of a method whose aggregate holds the parameters ps.
Slots(m, ps, payable) ==
    (IF Len(ps) > 0 THEN <<"args: " \o Aggregate(ps)>> ELSE <<>>)
      \o (IF MutableReceiver(m) THEN <<"gas?: any">> ELSE <<>>)
      \o (IF payable THEN <<"amount?: any">> ELSE <<>>)

\* The texts a return type may be written as.
ResultTexts(m) ==
    {"void"} \cup (IF m.sig.output.kind = "Type" /\ Projects(m.sig.output.ty)
                   THEN {Projected(m.sig.output.ty)} ELSE {})

Call(m, slots, result) ==
    m.sig.ident \o "(" \o Joined(slots) \o "): Promise<" \o result \o ">;"

(***************************************************************************)
(* C23.  As claimed: for a method without the init marker the argument     *)
(* slots are the aggregate of every parameter other than the receiver,     *)
(* present if and only if there is such a parameter, then the gas slot if  *)
(* and only if the receiver is mutable, then the amount slot if and only   *)
(* if the method is payable.                                               *)
(***************************************************************************)
C23_ArgumentSlots ==
    (SigCalled /\ ~Marked(SigGiven.attrs, "init") /\ "text" \in DOMAIN buf[1]) =>
        \E result \in ResultTexts(SigGiven) :
            SigText = Call(SigGiven,
                           Slots(SigGiven, NonReceiver(SigGiven),
                                 Marked(SigGiven.attrs, "payable")),
                           result)

(***************************************************************************)
(* C23, amended.  For a method that does not carry #[init], the argument   *)
(* slots are the aggregate of the parameters, other than the receiver,     *)
(* whose pattern is an identifier, present if and only if there is such a  *)
(* parameter, then the gas slot if and only if the receiver is mutable,    *)
(* then the amount slot if and only if the method carries #[payable], the  *)
(* markers written as bare identifiers.                                    *)
(***************************************************************************)
C23_NamedArgumentSlots ==
    (SigCalled /\ ~BareMarked(SigGiven.attrs, "init") /\ "text" \in DOMAIN buf[1]) =>
        \E result \in ResultTexts(SigGiven) :
            SigText = Call(SigGiven,
                           Slots(SigGiven, NamedParams(SigGiven),
                                 BareMarked(SigGiven.attrs, "payable")),
                           result)

\* A payable method with a mutable receiver, a named parameter and one
\* whose pattern is a wildcard.
C23_Witness ==
    /\ SigCalled
    /\ SigGiven = MethodSig("f", <<Attr(<<"payable">>)>>,
                            <<Receiver(TRUE), Typed(PatIdent("x"), Named("U128")),
                              Typed(PatWild, Named("u32"))>>,
                            ReturnDefault)
    /\ SigText = "f(args: { x: U128 }, gas?: any, amount?: any): Promise<void>;"

(***************************************************************************)
(* C24.  As claimed: for a method with the init marker the text is the     *)
(* aggregate argument alone, without Promise and without gas or amount     *)
(* slot whatever the receiver and the payable marker; when the method has  *)
(* no parameter the aggregate is omitted, so the text is not an aggregate  *)
(* with nothing in it.                                                     *)
(***************************************************************************)
C24_InitAggregateOrNothing ==
    (SigCalled /\ Marked(SigGiven.attrs, "init") /\ "text" \in DOMAIN buf[1]) =>
        IF Len(NonReceiver(SigGiven)) = 0
        THEN SigText # SigGiven.sig.ident \o ": " \o Aggregate(<<>>) \o ";"
        ELSE SigText = SigGiven.sig.ident \o ": "
                         \o Aggregate(NonReceiver(SigGiven)) \o ";"

(***************************************************************************)
(* C24, amended.  For a method that carries #[init], written as a bare     *)
(* identifier, the text is "name: { ... };", the aggregate of its          *)
(* parameters whose pattern is an identifier and nothing else: no Promise, *)
(* no gas or amount slot whatever the receiver and the payable marker, and *)
(* the return type is not projected.  Without such parameters the          *)
(* aggregate is still written, with nothing between its braces.            *)
(***************************************************************************)
C24_InitAggregateAlone ==
    (SigCalled /\ BareMarked(SigGiven.attrs, "init")) =>
        IF \A k \in DOMAIN NamedParams(SigGiven) : Projects(NamedParams(SigGiven)[k].ty)
        THEN buf = <<[text |-> SigGiven.sig.ident \o ": "
                                 \o Aggregate(NamedParams(SigGiven)) \o ";"]>>
        ELSE "panic" \in DOMAIN buf[1]

\* A payable init method with a mutable receiver, no parameter, and a
\* return type that ts_type does not support.
C24_Witness ==
    /\ SigCalled
    /\ SigGiven = MethodSig("f", <<Attr(<<"init">>), Attr(<<"payable">>)>>,
                            <<Receiver(TRUE)>>, ReturnType(TypePtr(Named("u32"))))
    /\ SigText = "f: {  };"

(***************************************************************************)
(* C25.  As claimed: for a method without the init marker the text ends in *)
(* Promise<R>, R being "void" when no return type is declared or when the  *)
(* declared return type is Promise or PromiseOrValue, with or without type *)
(* arguments, and the projection of the declared return type otherwise.    *)
(***************************************************************************)
IsPromise(ty) ==
    ty.shape = "Path" /\ ty.path \in {<<"Promise">>, <<"PromiseOrValue">>}

Result(m) ==
    IF m.sig.output.kind = "Default" THEN "void"
    ELSE IF IsPromise(m.sig.output.ty) THEN "void"
    ELSE Projected(m.sig.output.ty)

C25_PromiseOfResult ==
    (SigCalled /\ ~Marked(SigGiven.attrs, "init") /\ "text" \in DOMAIN buf[1]) =>
        SigText = Call(SigGiven,
                       Slots(SigGiven, NamedParams(SigGiven),
                             BareMarked(SigGiven.attrs, "payable")),
                       Result(SigGiven))

(***************************************************************************)
(* C25, the part that holds.  The result is "void" when no return type is  *)
(* declared, when the declared type projects to "void" or when it is a     *)
(* path spelled Promise, with or without type arguments; any other type is *)
(* written as its projection, PromiseOrValue and near_sdk::Promise too.    *)
(***************************************************************************)
C25_PromiseOfProjection ==
    (SigCalled /\ ~BareMarked(SigGiven.attrs, "init") /\ "text" \in DOMAIN buf[1]) =>
        SigText = Call(SigGiven,
                       Slots(SigGiven, NamedParams(SigGiven),
                             BareMarked(SigGiven.attrs, "payable")),
                       IF SigGiven.sig.output.kind = "Default" THEN "void"
                       ELSE IF SigGiven.sig.output.ty.shape = "Path"
                               /\ SigGiven.sig.output.ty.path = <<"Promise">>
                       THEN "void"
                       ELSE Projected(SigGiven.sig.output.ty))

(***************************************************************************)
(* C26.  As claimed: when the processing of a file panics at one of its    *)
(* declarations, nothing of the declarations that precede it in the file   *)
(* has been recorded or written: with them alone the pass is as it was     *)
(* before the file, in its name, its interface and method lists and its    *)
(* output.                                                                 *)
(***************************************************************************)
Recorded(this) ==
    <<this.name, this.interfaces, this.view_methods, this.change_methods, this.buf>>

\* The declarations of its before the first one at which the pass panics.
Preceding(this, its) ==
    LET failing == CHOOSE k \in DOMAIN its :
                      /\ panics(TS_ts_items(this, SubSeq(its, 1, k)))
                      /\ ~panics(TS_ts_items(this, SubSeq(its, 1, k - 1)))
    IN  SubSeq(its, 1, failing - 1)

C26_NoPartialAdmission ==
    [][ (LastIs("File")' /\ panics(TS')) =>
            Recorded(TS_ts_items(TS, Preceding(TS, last'[1].item.items)))
                = Recorded(TS) ]_vars

(***************************************************************************)
(* C27.  As claimed: when no two exported methods of two files have the    *)
(* same name, pushing the files in one order or the other gives the same   *)
(* name, the same method map, the same interface registry and the same set *)
(* of names in each of the init, view and change lists.                    *)
(***************************************************************************)
RECURSIVE RegisteredNames(_)
RegisteredNames(its) ==
    IF its = <<>> THEN <<>>
    ELSE (IF Head(its).tag = "Impl" /\ Registers(Head(its).item)
          THEN Idents(Exported(Head(its).item)) ELSE <<>>)
         \o RegisteredNames(Tail(its))

NoDuplicates(seq) == \A j, k \in DOMAIN seq : seq[j] = seq[k] => j = k

DistinctMethodNames(a, b) ==
    NoDuplicates(RegisteredNames(Flat(a.items) \o Flat(b.items)))

\* c and d differ at most in the order of their lists.
SameButOrder(c, d) ==
    /\ c.name = d.name
    /\ c.methods = d.methods
    /\ c.traits = d.traits
    /\ Range(c.init_methods) = Range(d.init_methods)
    /\ Range(c.view_methods) = Range(d.view_methods)
    /\ Range(c.change_methods) = Range(d.change_methods)

FirstFile == last[1].item

SecondFile == last'[1].item

C27_OrderOnlyOrders ==
    [][ (pushed = 1 /\ LastIs("File")' /\ DistinctMethodNames(FirstFile, SecondFile)) =>
            SameButOrder(contract', push_asts(new, <<SecondFile, FirstFile>>)) ]_vars

(***************************************************************************)
(* C27, amended.  When moreover the bare implementations registered by the *)
(* two files have the same owning type and no interface is defined by both *)
(* files, pushing the files in one order or the other gives the same       *)
(* name, method map, interface registry and sets of init, view and change  *)
(* names, and the same interfaces and retained declarations up to order.   *)
(***************************************************************************)
Owners(its) ==
    { its[k].item.self_ty.path : k \in { j \in DOMAIN its :
          /\ its[j].tag = "Impl"
          /\ Registers(its[j].item)
          /\ ~Implements(its[j].item)
          /\ its[j].item.self_ty.shape = "Path" } }

Defined(its) == { its[k].item.ident : k \in { j \in DOMAIN its : its[j].tag = "Trait" } }

Permuted(s, t) ==
    /\ Len(s) = Len(t)
    /\ \A x \in Range(s) : Occurrences(x, s) = Occurrences(x, t)

OrderFree(a, b) ==
    /\ DistinctMethodNames(a, b)
    /\ Cardinality(Owners(Flat(a.items) \o Flat(b.items))) <= 1
    /\ Defined(Flat(a.items)) \cap Defined(Flat(b.items)) = {}

C27_OrderOnlyOrdersOneOwner ==
    [][ (pushed = 1 /\ LastIs("File")' /\ OrderFree(FirstFile, SecondFile)) =>
            LET swapped == push_asts(new, <<SecondFile, FirstFile>>) IN
            /\ SameButOrder(contract', swapped)
            /\ Permuted(interfaces', swapped.interfaces)
            /\ Permuted(items', swapped.items) ]_vars

\* A file with an implementation of I for C, then a file with a bare
\* implementation on C, their methods put and get.
C27_Witness ==
    /\ pushed = 2
    /\ Len(items) = 2
    /\ items[1].item.trait_ = Some(<<"I">>)
    /\ items[2].item.trait_ = None
    /\ name = Some("C")
    /\ DOMAIN methods = {"put", "get"}

(***************************************************************************)
(* C28.  As claimed: in every reachable state each name of the method map  *)
(* occurs in exactly one of the init, view and change lists, once.         *)
(***************************************************************************)
C28_ListedExactlyOnce ==
    \A n \in DOMAIN methods : Listed(n) = 1

(***************************************************************************)
(* C28, amended.  In every reachable state each name of the method map     *)
(* occurs in each of the init, view and change lists once per exported     *)
(* method of that name and of that category in the retained                *)
(* implementations: at least once in all, and in exactly one list, once,   *)
(* when one such method only was registered.                               *)
(***************************************************************************)
RegisteredAs(n, cat) ==
    Cardinality(UNION { { <<k, j>> : j \in { j \in DOMAIN Exported(items[k].item) :
                                               /\ Exported(items[k].item)[j].sig.ident = n
                                               /\ Category(Exported(items[k].item)[j]) = cat } } :
                        k \in { k \in DOMAIN items : items[k].tag = "Impl" } })

C28_ListedOncePerRegistration ==
    \A n \in DOMAIN methods :
        /\ Occurrences(n, init_methods) = RegisteredAs(n, "init")
        /\ Occurrences(n, view_methods) = RegisteredAs(n, "view")
        /\ Occurrences(n, change_methods) = RegisteredAs(n, "change")
        /\ Listed(n) >= 1
        /\ Declarations(n) = 1 => Listed(n) = 1

\* get was registered as a view method and then as a change method: the
\* name is in two lists.
C28_Witness ==
    /\ "get" \in DOMAIN methods
    /\ Occurrences("get", view_methods) = 1
    /\ Occurrences("get", change_methods) = 1
    /\ Len(items) = 2

(***************************************************************************)
(* C29.  The Contract starts empty and its ordered parts only grow: at     *)
(* every push the interfaces, the init, view and change lists and the      *)
(* retained declarations before the push are each a prefix of the same     *)
(* list after it, and no key leaves the method map or the registry.        *)
(***************************************************************************)
StartsEmpty ==
    /\ name = None
    /\ interfaces = <<>> /\ init_methods = <<>> /\ view_methods = <<>>
    /\ change_methods = <<>> /\ items = <<>>
    /\ DOMAIN methods = {} /\ DOMAIN traits = {}

Grows ==
    /\ IsPrefix(interfaces, interfaces')
    /\ IsPrefix(init_methods, init_methods')
    /\ IsPrefix(view_methods, view_methods')
    /\ IsPrefix(change_methods, change_methods')
    /\ IsPrefix(items, items')
    /\ DOMAIN methods \subseteq DOMAIN methods'
    /\ DOMAIN traits \subseteq DOMAIN traits'

C29_StartsEmptyAndGrows == StartsEmpty /\ [][Grows]_vars

\* After an implementation of I, an implementation of J was pushed: the
\* interfaces, the view list and the retained declarations grew at the end.
C29_Witness ==
    /\ pushed = 2
    /\ interfaces = <<"I", "J">>
    /\ Len(view_methods) = 2
    /\ Len(items) = 2
    /\ LastIs("Impl") /\ items[2].item = LastItem

(***************************************************************************)
(* C30.  In every reachable state the keys of the method map are the names *)
(* that occur in the init, view and change lists, and the three lists      *)
(* together are as long as the number of exported methods registered, one  *)
(* entry per exported method of each retained implementation; so they are  *)
(* longer than the map is large exactly when a name was registered more    *)
(* than once.                                                              *)
(***************************************************************************)
RECURSIVE Sum(_)
Sum(seq) == IF Len(seq) = 0 THEN 0 ELSE Head(seq) + Sum(Tail(seq))

Registered ==
    Sum([k \in DOMAIN items |->
            IF items[k].tag = "Impl" THEN Len(Exported(items[k].item)) ELSE 0])

ListedInAll == Len(init_methods) + Len(view_methods) + Len(change_methods)

C30_MapKeysAreListedNames ==
    /\ DOMAIN methods =
          Range(init_methods) \cup Range(view_methods) \cup Range(change_methods)
    /\ ListedInAll = Registered
    /\ ListedInAll > Cardinality(DOMAIN methods)
          <=> \E n \in DOMAIN methods : Declarations(n) > 1

\* Two methods of the same name in one implementation: two entries in the
\* lists for one key of the map.
C30_Witness ==
    /\ pushed = 1
    /\ Cardinality(DOMAIN methods) = 1
    /\ ListedInAll = 2
    /\ Registered = 2

====
